---- MODULE Spec2Model ----
(***************************************************************************)
(* A model of the stream registry of rtmp-rs (src/registry): the map of    *)
(* stream keys to stream entries, the publisher / subscriber lifecycle of  *)
(* an entry, the periodic cleanup sweep, and the two levels of RwLock that *)
(* serialise the handlers; of the fan-out of frames through each entry's   *)
(* broadcast channel; of the GOP buffer (src/media/gop.rs); and of the    *)
(* protocol machines around them: the handshake, the session's stream ids  *)
(* and acknowledgement window, the command-sequence guard, the timestamp   *)
(* normalizer, and the server's admission and shutdown.                    *)
(*                                                                         *)
(* The specifications of the registry share the definitions of the         *)
(* handlers' bodies:                                                       *)
(*   Spec     follows the locks, one await at a time, and leaves the       *)
(*            channel aside;                                               *)
(*   LiveSpec runs each handler as one step (its body runs entirely under  *)
(*            its guards) and follows the channel and its receivers        *)
(*            through disconnects, takeovers and sweeps;                   *)
(*   CatchupSpec does the same for one entry and every kind of frame, and  *)
(*            follows the caches a late joiner is served from;             *)
(*   SnapshotSpec runs subscribe and broadcast statement by statement     *)
(*            under the entry lock;                                        *)
(*   GopSpec  drives one GopBuffer through its own interface.              *)
(* Each protocol machine has a specification of its own:                   *)
(*   HandshakeSpec   two Handshakes back to back, or one against a peer    *)
(*            that sends any version (protocol/handshake.rs);              *)
(*   SessionSpec     one SessionState (session/state.rs);                  *)
(*   CommandSpec     one CommandSequence (protocol/quirks.rs);             *)
(*   NormalizerSpec  one TimestampNormalizer (protocol/quirks.rs);         *)
(*   ServerSpec      run_until with its accept loop, connection tasks and  *)
(*            cleanup task (server/listener.rs);                           *)
(*   AmfSpec         the AMF0 encoder and one Amf0Decoder (amf/amf0.rs).   *)
(* Every specification sets all variables; the machines a specification    *)
(* does not follow stay as they were constructed.                          *)
(*                                                                         *)
(* Every handler of StreamRegistry first awaits the map lock, then (when   *)
(* the key has an entry) the entry lock, runs its body without any further *)
(* await, and drops both guards on return.  A task's position in a handler *)
(* is its pc: "idle" (no call in flight), "map" (holds the map guard),     *)
(* "entry" (holds the map guard and the entry guard).  The locks are not   *)
(* separate variables: who holds which guard follows from the pcs.         *)
(***************************************************************************)
EXTENDS Integers, FiniteSets, Sequences, TLC

(* Bounds of the model. *)
NumSessions == 2
MaxTime == 3
MaxFrames == 4      \* broadcast calls per key followed by LiveSpec
MaxPushes == 4      \* calls on the GopBuffer followed by GopSpec

(* Fields of RegistryConfig, with the values this model gives them: the two *)
(* timeouts in clock ticks, the GOP budget in bytes, the ring's capacity in *)
(* frames.                                                                  *)
publisher_grace_period == 1
idle_stream_timeout == 2
max_gop_size == 4
broadcast_capacity == 2

(* subscriber_count is an AtomicU32.  Numbers here are 32-bit signed, so a *)
(* u32 value v is written as the two's-complement integer with the same   *)
(* bits: v itself up to I32Max = 2^31 - 1, and v - 2^32 above it (2^32 - 1 *)
(* is written -1).                                                         *)
I32Max == 2147483647
I32Min == -I32Max - 1

(* The stream keys in use: one key, app "live", name "test_stream". *)
Keys == {"live/test_stream"}
Sessions == 1 .. NumSessions
Instants == 0 .. MaxTime

(* Option<T> is a set with at most one element. *)
NoneOpt == {}
Some(x) == {x}
is_some(o) == o # {}
is_none(o) == o = {}
unwrap(o) == CHOOSE x \in o : TRUE

VARIABLES
  streams,   \* StreamRegistry.streams: a function from the keys present to entries
  task,      \* per session: the handler call in flight and the last outcome
  held,      \* per session: the keys it subscribed to and has not unsubscribed from
  publishing, \* per session: the keys it registered as publisher and did not unregister
  cleanup_pc, \* the cleanup task: "sleep" (in ticker.tick) or "write" (queued for the map lock)
  now,       \* the monotonic clock read by Instant::now()
  tx,        \* StreamEntry.tx of each entry present: the channel its Sender feeds
  channels,  \* the broadcast channels created so far, in order of creation
  rx,        \* per session: the Receiver it got from subscribe and still owns
  got,       \* per session: what its last recv returned
  catchup,   \* per session: the catch-up frames its last subscribe returned
  calls,     \* per key: how many broadcast calls were made so far
  sent,      \* per entry present: the frames broadcast to it, in call order
  gop_by,    \* per entry present: the session that broadcast each frame of its GOP buffer
  regs,      \* per entry present: how many register_publisher calls it accepted (1, or 2 for more)
  gop,       \* GopSpec: the GopBuffer under test
  gop_call,  \* GopSpec: the last call made on it and what it returned
  hs,        \* HandshakeSpec: the client's and the server's Handshake
  pipe,      \* HandshakeSpec: per role, the bytes on their way to it
  inbox,     \* HandshakeSpec: per role, the bytes read and not yet consumed by process
  hs_log,    \* HandshakeSpec: the outputs so far, as (sender, length), in order
  hs_call,   \* HandshakeSpec: the last call made and what it returned
  hs_mode,   \* HandshakeSpec: back to back, or one Handshake facing a foreign peer
  hs_reads,  \* HandshakeSpec: how many short reads happened so far
  overflow_checks, \* whether the build panics on integer overflow (debug) or wraps (release)
  sess,      \* SessionSpec: the SessionState under test
  sess_call, \* SessionSpec: the last call made on it and what it returned
  sess_first, \* SessionSpec: next_stream_id when the run starts (smaller ids were returned before)
  sess_returned, \* SessionSpec: the ids allocate_stream_id returned during the run
  sess_unacked, \* SessionSpec: the bytes received since the last mark_ack_sent, as a u64
  cmdseq,    \* CommandSpec: the CommandSequence under test
  cmd_call,  \* CommandSpec: the last call made on it and what it returned
  cmd_log,   \* CommandSpec: the names given to on_command so far
  norm,      \* NormalizerSpec: the TimestampNormalizer under test
  norm_call, \* NormalizerSpec: the last call made on it and what it returned
  norm_in,   \* NormalizerSpec: the timestamps given to normalize so far
  norm_out,  \* NormalizerSpec: the timestamps normalize returned so far
  srv,       \* ServerSpec: the RtmpServer and where its run_until is
  shutdown_fired, \* ServerSpec: the shutdown future given to run_until has completed
  conns,     \* ServerSpec: the session ids of the connection tasks that are alive
  cleanup_task, \* ServerSpec: the task made by spawn_cleanup_task
  srv_accept, \* ServerSpec: the last handle_connection call and how it ended
  amf_dec,   \* AmfSpec: the Amf0Decoder that is kept from one buffer to the next
  amf_call,  \* AmfSpec: the last call made on it and what it returned
  amf_run    \* AmfSpec: the frames of the decode call in progress and the rest of its buffer

(* What each specification leaves alone. *)
channel_vars == <<tx, channels, rx, got, catchup, calls, sent, gop_by, regs>>
gop_vars == <<gop, gop_call>>
lock_vars == <<task, cleanup_pc>>
registry_vars == <<streams, held, publishing, now, lock_vars, channel_vars, gop_vars>>
hs_vars == <<hs, pipe, inbox, hs_log, hs_call, hs_mode, hs_reads>>
sess_vars == <<sess, sess_call, sess_first, sess_returned, sess_unacked>>
cmd_vars == <<cmdseq, cmd_call, cmd_log>>
norm_vars == <<norm, norm_call, norm_in, norm_out>>
srv_vars == <<srv, shutdown_fired, conns, cleanup_task, srv_accept>>
amf_vars == <<amf_dec, amf_call, amf_run>>
proto_vars == <<hs_vars, overflow_checks, sess_vars, cmd_vars, norm_vars, srv_vars, amf_vars>>
hs_others == <<overflow_checks, sess_vars, cmd_vars, norm_vars, srv_vars, amf_vars>>
sess_others == <<hs_vars, cmd_vars, norm_vars, srv_vars, amf_vars>>
cmd_others == <<hs_vars, overflow_checks, sess_vars, norm_vars, srv_vars, amf_vars>>
norm_others == <<hs_vars, sess_vars, cmd_vars, srv_vars, amf_vars>>
srv_others == <<hs_vars, overflow_checks, sess_vars, cmd_vars, norm_vars, amf_vars>>
amf_others == <<hs_vars, overflow_checks, sess_vars, cmd_vars, norm_vars, srv_vars>>

vars == <<streams, task, held, publishing, cleanup_pc, now, channel_vars, gop_vars,
          proto_vars>>

-----------------------------------------------------------------------------
(* Frames (registry/frame.rs) and FLV tags (media/flv.rs).  A payload is   *)
(* a sequence of bytes.                                                    *)

BroadcastFrameVideo(timestamp, data, is_keyframe, is_header) ==
  [frame_type |-> "Video", timestamp |-> timestamp, data |-> data,
   is_keyframe |-> is_keyframe, is_header |-> is_header]

BroadcastFrameAudio(timestamp, data, is_header) ==
  [frame_type |-> "Audio", timestamp |-> timestamp, data |-> data,
   is_keyframe |-> FALSE, is_header |-> is_header]

BroadcastFrameMetadata(data) ==
  [frame_type |-> "Metadata", timestamp |-> 0, data |-> data,
   is_keyframe |-> FALSE, is_header |-> FALSE]

FlvTagVideo(timestamp, data) ==
  [tag_type |-> "Video", timestamp |-> timestamp, data |-> data]

(* VideoFrameType::from_byte: the upper nibble of the first byte. *)
video_frame_type(tag) ==
  IF tag.tag_type = "Video" /\ Len(tag.data) > 0
    THEN LET n == (tag.data[1] \div 16) % 16
         IN  IF n \in 1 .. 5 THEN Some(n) ELSE NoneOpt
    ELSE NoneOpt

(* FlvTag::is_keyframe: Keyframe (1) or GeneratedKeyframe (4). *)
tag_is_keyframe(tag) ==
  LET ft == video_frame_type(tag)
  IN  is_some(ft) /\ unwrap(ft) \in {1, 4}

tag_size(tag) == Len(tag.data)

FlvTagAudio(timestamp, data) ==
  [tag_type |-> "Audio", timestamp |-> timestamp, data |-> data]

(* VideoCodec::from_byte: the lower nibble of the first byte. *)
video_codec(tag) ==
  IF tag.tag_type = "Video" /\ Len(tag.data) > 0
    THEN LET n == tag.data[1] % 16
         IN  IF n \in {2, 3, 4, 5, 6, 7, 12, 13} THEN Some(n) ELSE NoneOpt
    ELSE NoneOpt

(* AudioFormat::from_byte: the upper nibble of the first byte. *)
audio_format(tag) ==
  IF tag.tag_type = "Audio" /\ Len(tag.data) > 0
    THEN LET n == (tag.data[1] \div 16) % 16
         IN  IF n \in (0 .. 8) \cup {10, 11, 14, 15} THEN Some(n) ELSE NoneOpt
    ELSE NoneOpt

(* AVC (7) with packet type 0; AAC (10) with packet type 0. *)
is_avc_sequence_header(tag) ==
  IF tag.tag_type = "Video" /\ Len(tag.data) >= 2
    THEN video_codec(tag) = Some(7) /\ tag.data[2] = 0
    ELSE FALSE

is_aac_sequence_header(tag) ==
  IF tag.tag_type = "Audio" /\ Len(tag.data) >= 2
    THEN audio_format(tag) = Some(10) /\ tag.data[2] = 0
    ELSE FALSE

from_flv_tag_plain(tag) ==
  CASE tag.tag_type = "Video" -> BroadcastFrameVideo(tag.timestamp, tag.data, FALSE, FALSE)
    [] tag.tag_type = "Audio" -> BroadcastFrameAudio(tag.timestamp, tag.data, FALSE)
    [] tag.tag_type = "Script" -> BroadcastFrameMetadata(tag.data)

(* BroadcastFrame::from_flv_tag: the flags are read back from the payload. *)
from_flv_tag(tag) ==
  CASE tag.tag_type = "Video" ->
         BroadcastFrameVideo(tag.timestamp, tag.data,
                             tag_is_keyframe(tag), is_avc_sequence_header(tag))
    [] tag.tag_type = "Audio" ->
         BroadcastFrameAudio(tag.timestamp, tag.data, is_aac_sequence_header(tag))
    [] tag.tag_type = "Script" -> BroadcastFrameMetadata(tag.data)

-----------------------------------------------------------------------------
(* GopBuffer (media/gop.rs). *)

GopBufferWithMaxSize(max_size) ==
  [max_size |-> max_size, current_size |-> 0,
   video_header |-> NoneOpt, audio_header |-> NoneOpt, metadata |-> NoneOpt,
   frames |-> << >>, has_complete_gop |-> FALSE]

clear_frames(buf) ==
  [buf EXCEPT !.frames = << >>, !.current_size = 0, !.has_complete_gop = FALSE]

evict_everything(buf, size) ==
  IF buf.current_size + size > buf.max_size
    THEN [buf EXCEPT !.frames = << >>, !.current_size = 0]
    ELSE buf

(* The eviction loop of push: drop from the front while the frame does not fit. *)
RECURSIVE evict(_, _)
evict(buf, size) ==
  IF buf.current_size + size > buf.max_size /\ buf.frames # << >>
    THEN evict([buf EXCEPT !.frames = Tail(buf.frames),
                           !.current_size = buf.current_size - tag_size(Head(buf.frames))],
               size)
    ELSE buf

GopPush_keeps_frames(buf, tag) ==
  LET size == tag_size(tag)
      b1 == IF tag_is_keyframe(tag)
              THEN [buf EXCEPT !.has_complete_gop = TRUE]
              ELSE buf
      b2 == IF b1.current_size + size > b1.max_size THEN evict(b1, size) ELSE b1
  IN  IF b2.current_size + size > b2.max_size
        THEN b2
        ELSE [b2 EXCEPT !.frames = Append(b2.frames, tag),
                        !.current_size = b2.current_size + size]

(* GopBuffer::push: the buffer after the call (the frame is rejected when it  *)
(* still does not fit after the eviction).                                    *)
GopPush(buf, tag) ==
  LET size == tag_size(tag)
      b1 == IF tag_is_keyframe(tag)
              THEN [clear_frames(buf) EXCEPT !.has_complete_gop = TRUE]
              ELSE buf
      b2 == IF b1.current_size + size > b1.max_size THEN evict(b1, size) ELSE b1
  IN  IF b2.current_size + size > b2.max_size
        THEN b2
        ELSE [b2 EXCEPT !.frames = Append(b2.frames, tag),
                        !.current_size = b2.current_size + size]

(* The value push returns: whether the frame was added. *)
GopPushOk(buf, tag) ==
  LET size == tag_size(tag)
      b1 == IF tag_is_keyframe(tag)
              THEN [clear_frames(buf) EXCEPT !.has_complete_gop = TRUE]
              ELSE buf
      b2 == IF b1.current_size + size > b1.max_size THEN evict(b1, size) ELSE b1
  IN  ~(b2.current_size + size > b2.max_size)

set_video_header(buf, tag) == [buf EXCEPT !.video_header = Some(tag)]

(* GopBuffer::clear: the frames and the headers. *)
gop_clear(buf) ==
  [clear_frames(buf) EXCEPT !.video_header = NoneOpt, !.audio_header = NoneOpt,
                            !.metadata = NoneOpt]

(* An Option as the sequence of what it holds. *)
opt_seq(o) == IF is_some(o) THEN <<unwrap(o)>> ELSE << >>

(* GopBuffer::get_catchup_data: the buffer's own headers, then its frames. *)
get_catchup_data(buf) ==
  opt_seq(buf.video_header) \o opt_seq(buf.audio_header) \o buf.frames

-----------------------------------------------------------------------------
(* StreamEntry (registry/entry.rs). *)

StreamEntryNew(created) ==
  [gop_buffer |-> GopBufferWithMaxSize(max_gop_size),
   video_header |-> NoneOpt,
   audio_header |-> NoneOpt,
   metadata |-> NoneOpt,
   publisher_id |-> NoneOpt,
   subscriber_count |-> 0,
   publisher_disconnected_at |-> NoneOpt,
   created_at |-> created,
   state |-> "Idle"]

update_caches_keeps_first(entry, frame) ==
  LET e1 == IF frame.frame_type = "Video" /\ frame.is_header /\ is_none(entry.video_header)
              THEN [entry EXCEPT !.video_header = Some(frame)]
            ELSE IF frame.frame_type = "Audio" /\ frame.is_header /\ is_none(entry.audio_header)
              THEN [entry EXCEPT !.audio_header = Some(frame)]
            ELSE IF frame.frame_type = "Metadata" /\ is_none(entry.metadata)
              THEN [entry EXCEPT !.metadata = Some(frame)]
            ELSE entry
  IN  IF frame.frame_type = "Video" /\ ~frame.is_header
        THEN [e1 EXCEPT !.gop_buffer =
                 GopPush(e1.gop_buffer, FlvTagVideo(frame.timestamp, frame.data))]
        ELSE e1

update_caches(entry, frame) ==
  LET e1 == IF frame.frame_type = "Video" /\ frame.is_header
              THEN [entry EXCEPT !.video_header = Some(frame)]
            ELSE IF frame.frame_type = "Audio" /\ frame.is_header
              THEN [entry EXCEPT !.audio_header = Some(frame)]
            ELSE IF frame.frame_type = "Metadata"
              THEN [entry EXCEPT !.metadata = Some(frame)]
            ELSE entry
  IN  IF frame.frame_type = "Video" /\ ~frame.is_header
        THEN [e1 EXCEPT !.gop_buffer =
                 GopPush(e1.gop_buffer, FlvTagVideo(frame.timestamp, frame.data))]
        ELSE e1

get_catchup_frames_headers_first(entry) ==
  LET tags == get_catchup_data(entry.gop_buffer)
  IN  opt_seq(entry.video_header) \o opt_seq(entry.audio_header)
        \o opt_seq(entry.metadata)
        \o [i \in 1 .. Len(tags) |-> from_flv_tag(tags[i])]

(* StreamEntry::get_catchup_frames: metadata, the two sequence headers, then *)
(* the GOP buffer's catch-up data, each tag converted back to a frame.       *)
get_catchup_frames(entry) ==
  LET tags == get_catchup_data(entry.gop_buffer)
  IN  opt_seq(entry.metadata) \o opt_seq(entry.video_header)
        \o opt_seq(entry.audio_header)
        \o [i \in 1 .. Len(tags) |-> from_flv_tag(tags[i])]

-----------------------------------------------------------------------------
(* The bodies of the StreamRegistry handlers (registry/store.rs), as        *)
(* functions of the entry they lock.                                        *)

(* AtomicU32::fetch_add(1) and fetch_sub(1): the new value, wrapping. *)
fetch_add(n) == IF n = -1 THEN 0 ELSE IF n = I32Max THEN I32Min ELSE n + 1
fetch_sub(n) == IF n = 0 THEN -1 ELSE IF n = I32Min THEN I32Max ELSE n - 1

(* The unsigned comparison count > 0. *)
u32_positive(n) == n # 0

(* Variants of the handlers with one plausible slip each; the properties  *)
(* below are expected to tell each of them from the handler it varies.    *)
register_rejected_never(entry) == FALSE

(* register_publisher, the key has an entry: rejected when Active and owned. *)
register_rejected(entry) ==
  entry.state = "Active" /\ is_some(entry.publisher_id)

register_existing_keeps_disconnect(entry, session_id) ==
  IF entry.state = "Active" /\ is_some(entry.publisher_id)
    THEN entry
    ELSE [entry EXCEPT !.publisher_id = Some(session_id),
                       !.state = "Active"]

register_existing_resets_count(entry, session_id) ==
  IF entry.state = "Active" /\ is_some(entry.publisher_id)
    THEN entry
    ELSE [entry EXCEPT !.publisher_id = Some(session_id),
                       !.publisher_disconnected_at = NoneOpt,
                       !.subscriber_count = 0,
                       !.state = "Active"]

register_existing(entry, session_id) ==
  IF register_rejected(entry)
    THEN entry
    ELSE [entry EXCEPT !.publisher_id = Some(session_id),
                       !.publisher_disconnected_at = NoneOpt,
                       !.state = "Active"]

(* register_publisher, the key has no entry. *)
register_new(session_id, created) ==
  [StreamEntryNew(created) EXCEPT !.publisher_id = Some(session_id),
                                  !.state = "Active"]

unregister_mismatch_only_unowned(entry, session_id) == is_none(entry.publisher_id)

(* unregister_publisher: the caller must be the current publisher. *)
unregister_mismatch(entry, session_id) ==
  entry.publisher_id # Some(session_id)

unregister_entry_keeps_state(entry, session_id, instant) ==
  IF entry.publisher_id # Some(session_id)
    THEN entry
    ELSE [entry EXCEPT !.publisher_id = NoneOpt,
                       !.publisher_disconnected_at = Some(instant)]

unregister_entry_always_grace(entry, session_id, instant) ==
  IF entry.publisher_id # Some(session_id)
    THEN entry
    ELSE [entry EXCEPT !.publisher_id = NoneOpt,
                       !.publisher_disconnected_at = Some(instant),
                       !.state = "GracePeriod"]

unregister_entry_stale_instant(entry, session_id, instant) ==
  IF entry.publisher_id # Some(session_id)
    THEN entry
    ELSE [entry EXCEPT !.publisher_id = NoneOpt,
                       !.publisher_disconnected_at = Some(entry.created_at),
                       !.state = IF entry.subscriber_count # 0
                                   THEN "GracePeriod" ELSE "Idle"]

unregister_entry(entry, session_id, instant) ==
  IF unregister_mismatch(entry, session_id)
    THEN entry
    ELSE [entry EXCEPT !.publisher_id = NoneOpt,
                       !.publisher_disconnected_at = Some(instant),
                       !.state = IF u32_positive(entry.subscriber_count)
                                   THEN "GracePeriod" ELSE "Idle"]

subscribe_not_active_in_grace(entry) == is_none(entry.publisher_id)

(* subscribe: refused on an Idle entry without publisher. *)
subscribe_not_active(entry) ==
  entry.state = "Idle" /\ is_none(entry.publisher_id)

subscribe_entry(entry) ==
  IF subscribe_not_active(entry)
    THEN entry
    ELSE [entry EXCEPT !.subscriber_count = fetch_add(entry.subscriber_count)]

unsubscribe_entry_idles(entry) ==
  LET n == fetch_sub(entry.subscriber_count)
  IN  [entry EXCEPT !.subscriber_count = n,
                    !.state = IF n = 0 /\ is_none(entry.publisher_id) THEN "Idle" ELSE @]

unsubscribe_entry(entry) ==
  [entry EXCEPT !.subscriber_count = fetch_sub(entry.subscriber_count)]

should_remove_at_limit(entry, instant) ==
  CASE entry.state = "GracePeriod" ->
         IF is_some(entry.publisher_disconnected_at)
           THEN instant - unwrap(entry.publisher_disconnected_at) >= publisher_grace_period
           ELSE FALSE
    [] entry.state = "Idle" ->
         IF is_some(entry.publisher_disconnected_at)
           THEN instant - unwrap(entry.publisher_disconnected_at) > idle_stream_timeout
           ELSE instant - entry.created_at > idle_stream_timeout
    [] entry.state = "Active" -> FALSE

should_remove_unwatched(entry, instant) ==
  CASE entry.state = "GracePeriod" ->
         IF is_some(entry.publisher_disconnected_at)
           THEN /\ entry.subscriber_count = 0
                /\ instant - unwrap(entry.publisher_disconnected_at) > publisher_grace_period
           ELSE FALSE
    [] entry.state = "Idle" ->
         IF is_some(entry.publisher_disconnected_at)
           THEN instant - unwrap(entry.publisher_disconnected_at) > idle_stream_timeout
           ELSE instant - entry.created_at > idle_stream_timeout
    [] entry.state = "Active" -> FALSE

(* cleanup: the test applied to each entry whose try_read succeeded. *)
should_remove(entry, instant) ==
  CASE entry.state = "GracePeriod" ->
         IF is_some(entry.publisher_disconnected_at)
           THEN instant - unwrap(entry.publisher_disconnected_at) > publisher_grace_period
           ELSE FALSE
    [] entry.state = "Idle" ->
         IF is_some(entry.publisher_disconnected_at)
           THEN instant - unwrap(entry.publisher_disconnected_at) > idle_stream_timeout
           ELSE instant - entry.created_at > idle_stream_timeout
    [] entry.state = "Active" -> FALSE

-----------------------------------------------------------------------------
(* The two levels of tokio RwLock.  A session holds the map guard from the  *)
(* first await of a handler until the handler returns; register_publisher   *)
(* takes it for writing, the other handlers for reading.  The entry guard   *)
(* is taken for writing by register_publisher, unregister_publisher and     *)
(* broadcast, for reading by subscribe and unsubscribe.  tokio's RwLock is  *)
(* fair (write-preferring): once the cleanup task is at the head of the     *)
(* map lock's queue, no further guard is handed out before it is served.    *)

Ops == {"register_publisher", "unregister_publisher", "subscribe",
        "unsubscribe", "broadcast"}
MapWriteOps == {"register_publisher"}
EntryWriteOps == {"register_publisher", "unregister_publisher", "broadcast"}

Idle == [pc |-> "idle", op |-> "none", key |-> "", res |-> "none"]
Returned(res) == [Idle EXCEPT !.res = res]

MapWriters == {t \in Sessions : task[t].pc # "idle" /\ task[t].op \in MapWriteOps}
MapReaders == {t \in Sessions : task[t].pc # "idle" /\ task[t].op \notin MapWriteOps}
EntryWriters(k) ==
  {t \in Sessions : task[t].pc = "entry" /\ task[t].key = k /\ task[t].op \in EntryWriteOps}
EntryReaders(k) ==
  {t \in Sessions : task[t].pc = "entry" /\ task[t].key = k /\ task[t].op \notin EntryWriteOps}

(* RwLock::read / write / try_read can be granted. *)
can_read(readers, writers) == writers = {}
can_write(readers, writers) == readers = {} /\ writers = {}

(* HashMap::insert and HashMap::remove on the map of streams. *)
Range(s) == {s[i] : i \in DOMAIN s}
map_insert(m, k, e) == [x \in DOMAIN m \cup {k} |-> IF x = k THEN e ELSE m[x]]
map_remove_all(m, ks) == [x \in DOMAIN m \ ks |-> m[x]]

(* The frames sessions broadcast in this specification: the video sequence *)
(* header of a stream (bytes 0x17 0x00).                                    *)
VideoHeader == BroadcastFrameVideo(0, <<23, 0>>, TRUE, TRUE)
BroadcastInputs == {VideoHeader}

-----------------------------------------------------------------------------
(* The handshake (protocol/handshake.rs).  A packet is a sequence of       *)
(* HANDSHAKE_SIZE bytes.  generate_packet and generate_echo read the       *)
(* system clock; the model passes them the value read, in milliseconds as  *)
(* a u32.  The bytes generate_packet draws from its generator are written  *)
(* RandomByte: nothing in the handshake reads them back.                   *)

HANDSHAKE_SIZE == 1536
RTMP_VERSION == 3
RandomByte == 90

HsRoles == {"Client", "Server"}
peer_of(role) == IF role = "Client" THEN "Server" ELSE "Client"

(* Handshake::new *)
HandshakeNew(role) ==
  [role |-> role, state |-> "Initial", our_packet |-> NoneOpt, peer_packet |-> NoneOpt]

(* Handshake::is_done *)
is_done(h) == h.state = "Done"

(* Handshake::bytes_needed *)
bytes_needed(h) ==
  CASE h.state = "Initial" -> 0
    [] h.state = "WaitingForPeerPacket" -> 1 + HANDSHAKE_SIZE
    [] h.state = "NeedToSendResponse" -> 0
    [] h.state = "WaitingForPeerResponse" -> HANDSHAKE_SIZE
    [] h.state = "Done" -> 0

(* u32::to_be_bytes *)
to_be_bytes(t) ==
  <<(t \div 16777216) % 256, (t \div 65536) % 256, (t \div 256) % 256, t % 256>>

(* generate_packet: the time, four zero bytes, then generated bytes. *)
generate_packet(t) ==
  to_be_bytes(t) \o <<0, 0, 0, 0>> \o [i \in 1 .. HANDSHAKE_SIZE - 8 |-> RandomByte]

(* generate_echo: the peer's packet with bytes 4..7 replaced by our time. *)
generate_echo(peer_packet, t) ==
  SubSeq(peer_packet, 1, 4) \o to_be_bytes(t) \o SubSeq(peer_packet, 9, HANDSHAKE_SIZE)

(* Handshake::generate_initial: the machine afterwards and what it returns. *)
generate_initial(h, t) ==
  IF h.state # "Initial"
    THEN [h |-> h, out |-> NoneOpt]
  ELSE IF h.role = "Client"
    THEN LET c1 == generate_packet(t)
         IN  [h |-> [h EXCEPT !.our_packet = Some(c1),
                              !.state = "WaitingForPeerPacket"],
              out |-> Some(<<RTMP_VERSION>> \o c1)]
    ELSE [h |-> [h EXCEPT !.state = "WaitingForPeerPacket"], out |-> NoneOpt]

(* Bytes::get_u8 / copy_to_slice: the bytes taken and the bytes left. *)
drop_bytes(data, n) == SubSeq(data, n + 1, Len(data))
take_bytes(data, n) == SubSeq(data, 1, n)

(* What process returns and leaves behind: the machine, the caller's       *)
(* buffer, Ok(Some(out)) / Ok(None) / Err(err).                            *)
HsResult(h, data, out, err) == [h |-> h, data |-> data, out |-> out, err |-> err]

process_peer_packet_any_version(h, data, t1, t2) ==
  IF h.role = "Server"
    THEN IF Len(data) < 1 + HANDSHAKE_SIZE
           THEN HsResult(h, data, NoneOpt, NoneOpt)
         ELSE LET c1 == take_bytes(drop_bytes(data, 1), HANDSHAKE_SIZE)
                  s1 == generate_packet(t1)
              IN  HsResult([h EXCEPT !.peer_packet = Some(c1),
                                     !.our_packet = Some(s1),
                                     !.state = "WaitingForPeerResponse"],
                           drop_bytes(data, 1 + HANDSHAKE_SIZE),
                           Some(<<RTMP_VERSION>> \o s1 \o generate_echo(c1, t2)),
                           NoneOpt)
    ELSE IF Len(data) < 1 + HANDSHAKE_SIZE * 2
           THEN HsResult(h, data, NoneOpt, NoneOpt)
         ELSE LET s1 == take_bytes(drop_bytes(data, 1), HANDSHAKE_SIZE)
              IN  HsResult([h EXCEPT !.peer_packet = Some(s1), !.state = "Done"],
                           drop_bytes(data, 1 + HANDSHAKE_SIZE * 2),
                           Some(generate_echo(s1, t1)),
                           NoneOpt)

(* Handshake::process_peer_packet: C0C1 for the server, S0S1S2 for the     *)
(* client.  The version byte is read before it is checked.                 *)
process_peer_packet(h, data, t1, t2) ==
  IF h.role = "Server"
    THEN IF Len(data) < 1 + HANDSHAKE_SIZE
           THEN HsResult(h, data, NoneOpt, NoneOpt)
         ELSE IF data[1] # RTMP_VERSION /\ data[1] < 3
           THEN HsResult(h, drop_bytes(data, 1), NoneOpt,
                         Some([kind |-> "InvalidVersion", version |-> data[1]]))
         ELSE LET c1 == take_bytes(drop_bytes(data, 1), HANDSHAKE_SIZE)
                  s1 == generate_packet(t1)
              IN  HsResult([h EXCEPT !.peer_packet = Some(c1),
                                     !.our_packet = Some(s1),
                                     !.state = "WaitingForPeerResponse"],
                           drop_bytes(data, 1 + HANDSHAKE_SIZE),
                           Some(<<RTMP_VERSION>> \o s1 \o generate_echo(c1, t2)),
                           NoneOpt)
    ELSE IF Len(data) < 1 + HANDSHAKE_SIZE * 2
           THEN HsResult(h, data, NoneOpt, NoneOpt)
         ELSE IF data[1] # RTMP_VERSION /\ data[1] < 3
           THEN HsResult(h, drop_bytes(data, 1), NoneOpt,
                         Some([kind |-> "InvalidVersion", version |-> data[1]]))
         ELSE LET s1 == take_bytes(drop_bytes(data, 1), HANDSHAKE_SIZE)
              IN  HsResult([h EXCEPT !.peer_packet = Some(s1), !.state = "Done"],
                           drop_bytes(data, 1 + HANDSHAKE_SIZE * 2),
                           Some(generate_echo(s1, t1)),
                           NoneOpt)

process_peer_response_drains(h, data) ==
  IF h.role = "Server"
    THEN IF Len(data) < HANDSHAKE_SIZE
           THEN HsResult(h, << >>, NoneOpt, NoneOpt)
           ELSE HsResult([h EXCEPT !.state = "Done"], drop_bytes(data, HANDSHAKE_SIZE),
                         NoneOpt, NoneOpt)
    ELSE HsResult([h EXCEPT !.state = "Done"], data, NoneOpt, NoneOpt)

(* Handshake::process_peer_response: C2 for the server. *)
process_peer_response(h, data) ==
  IF h.role = "Server"
    THEN IF Len(data) < HANDSHAKE_SIZE
           THEN HsResult(h, data, NoneOpt, NoneOpt)
           ELSE HsResult([h EXCEPT !.state = "Done"], drop_bytes(data, HANDSHAKE_SIZE),
                         NoneOpt, NoneOpt)
    ELSE HsResult([h EXCEPT !.state = "Done"], data, NoneOpt, NoneOpt)

process_done_after_s0s1s2(h, data, t1, t2) ==
  IF h.state = "WaitingForPeerPacket"
    THEN LET r == process_peer_packet(h, data, t1, t2)
         IN  IF h.role = "Server" /\ is_some(r.out)
               THEN [r EXCEPT !.h.state = "Done"] ELSE r
  ELSE IF h.state = "WaitingForPeerResponse" THEN process_peer_response(h, data)
  ELSE HsResult(h, data, NoneOpt, NoneOpt)

(* Handshake::process *)
process(h, data, t1, t2) ==
  IF h.state = "WaitingForPeerPacket" THEN process_peer_packet(h, data, t1, t2)
  ELSE IF h.state = "WaitingForPeerResponse" THEN process_peer_response(h, data)
  ELSE HsResult(h, data, NoneOpt, NoneOpt)

(* Two fresh machines, nothing on the wire. *)
NoHsCall == [n |-> 0, role |-> "none", op |-> "none"]
BackToBack == [kind |-> "back_to_back"]
HsAside ==
  /\ hs = [r \in HsRoles |-> HandshakeNew(r)]
  /\ pipe = [r \in HsRoles |-> << >>]
  /\ inbox = [r \in HsRoles |-> << >>]
  /\ hs_log = << >>
  /\ hs_call = NoHsCall
  /\ hs_mode = BackToBack
  /\ hs_reads = 0

-----------------------------------------------------------------------------
(* u32 arithmetic.  A u32 is written as in subscriber_count above; its two *)
(* 16-bit halves are computed apart so that no intermediate result leaves  *)
(* the 32 bits of the numbers of this module.                              *)

hi16(x) == (x \div 65536) % 65536
lo16(x) == x % 65536
u32_of(h, l) == IF h >= 32768 THEN (h - 65536) * 65536 + l ELSE h * 65536 + l

(* u32::wrapping_add, and the + of a build without overflow checks. *)
u32_wrapping_add(a, b) ==
  LET l == lo16(a) + lo16(b)
      h == hi16(a) + hi16(b) + l \div 65536
  IN  u32_of(h % 65536, l % 65536)

(* u32::wrapping_sub, and the - of a build without overflow checks. *)
u32_wrapping_sub(a, b) ==
  LET l == lo16(a) - lo16(b)
      h == hi16(a) - hi16(b) - (IF l < 0 THEN 1 ELSE 0)
  IN  u32_of(h % 65536, l % 65536)

(* The comparisons of u32. *)
u32_lt(a, b) == hi16(a) < hi16(b) \/ (hi16(a) = hi16(b) /\ lo16(a) < lo16(b))
u32_ge(a, b) == ~u32_lt(a, b)
u32_gt(a, b) == u32_lt(b, a)

(* a + b and a - b leave the range of u32: a panic in a build with         *)
(* overflow checks (the default of debug builds), a wrap without them.     *)
u32_add_overflows(a, b) == hi16(a) + hi16(b) + (lo16(a) + lo16(b)) \div 65536 >= 65536
u32_sub_overflows(a, b) == u32_lt(a, b)

U32Max == -1

(* A u64 is a pair of u32: hi * 2^32 + lo; `as u32` keeps lo. *)
U64(hi, lo) == [hi |-> hi, lo |-> lo]
u64_add(a, b) ==
  U64(a.hi + b.hi + (IF u32_add_overflows(a.lo, b.lo) THEN 1 ELSE 0),
      u32_wrapping_add(a.lo, b.lo))
as_u32(a) == a.lo

-----------------------------------------------------------------------------
(* SessionState (session/state.rs): the stream ids and the acknowledgement *)
(* window.  Of StreamState (session/stream.rs) the id and the mode are     *)
(* kept.                                                                   *)

StreamStateNew(id) == [id |-> id, mode |-> "Idle"]

(* SessionState::new, as far as the fields used here go. *)
SessionStateNew ==
  [phase |-> "Connected",
   handshake_completed_at |-> NoneOpt,
   streams |-> [i \in {} |-> 0],
   next_stream_id |-> 1,
   window_ack_size |-> 2500000,
   bytes_received |-> U64(0, 0),
   last_ack_sequence |-> 0]

(* What a call returns and leaves behind; a panic leaves the fields as the *)
(* statements before it wrote them.                                        *)
SessResult(s, ret, panic) == [s |-> s, ret |-> ret, panic |-> panic]

(* SessionState::start_handshake *)
start_handshake(s) ==
  IF s.phase = "Connected" THEN [s EXCEPT !.phase = "Handshaking"] ELSE s

(* SessionState::complete_handshake, at the instant t *)
complete_handshake(s, t) ==
  IF s.phase = "Handshaking"
    THEN [s EXCEPT !.phase = "WaitingConnect", !.handshake_completed_at = Some(t)]
    ELSE s

(* SessionState::on_connect (the parameters it stores are left out) *)
on_connect(s) == [s EXCEPT !.phase = "Active"]

(* SessionState::close *)
close(s) == [s EXCEPT !.phase = "Closing"]

(* SessionState::allocate_stream_id *)
allocate_stream_id(s, checks) ==
  IF checks /\ u32_add_overflows(s.next_stream_id, 1)
    THEN SessResult(s, NoneOpt, TRUE)
    ELSE SessResult([s EXCEPT !.next_stream_id = u32_wrapping_add(@, 1),
                              !.streams = map_insert(@, s.next_stream_id,
                                                     StreamStateNew(s.next_stream_id))],
                    Some(s.next_stream_id), FALSE)

(* SessionState::remove_stream *)
remove_stream(s, stream_id) ==
  [s EXCEPT !.streams = map_remove_all(@, {stream_id})]

(* SessionState::add_bytes_received *)
add_bytes_received(s, bytes, checks) ==
  LET s1 == [s EXCEPT !.bytes_received = u64_add(@, bytes)]
      low == as_u32(s1.bytes_received)
  IN  IF checks /\ u32_sub_overflows(low, s1.last_ack_sequence)
        THEN SessResult(s1, NoneOpt, TRUE)
        ELSE SessResult(s1,
                        Some(u32_ge(u32_wrapping_sub(low, s1.last_ack_sequence),
                                    s1.window_ack_size)),
                        FALSE)

(* SessionState::mark_ack_sent *)
mark_ack_sent(s) == [s EXCEPT !.last_ack_sequence = as_u32(s.bytes_received)]

NoSessCall == [op |-> "none", n |-> 0, ret |-> NoneOpt, panic |-> FALSE]

SessAside ==
  /\ sess = SessionStateNew
  /\ sess_call = NoSessCall
  /\ sess_first = 1
  /\ sess_returned = {}
  /\ sess_unacked = U64(0, 0)

(* The build, where no specification depends on it. *)
BuildAside == overflow_checks = FALSE

-----------------------------------------------------------------------------
(* CommandSequence (protocol/quirks.rs): the command-sequence guard.  Of a *)
(* Command only the name is looked at.                                     *)

CmdNames ==
  {"connect", "releaseStream", "FCPublish", "createStream", "publish", "play",
   "FCUnpublish", "deleteStream", "closeStream", "unknownCommand"}

CloseCommands == {"FCUnpublish", "deleteStream", "closeStream"}

(* CommandSequence::new *)
CommandSequenceNew == [state |-> "Initial"]

is_valid_command_publish_once_connected(seq, name) ==
  CASE name = "connect" -> seq.state = "Initial"
    [] name \in {"releaseStream", "FCPublish"} -> TRUE
    [] name = "createStream" -> seq.state = "Connected" \/ seq.state = "Initial"
    [] name = "publish" -> seq.state \in {"StreamCreated", "Connected"}
    [] name = "play" -> seq.state = "StreamCreated"
    [] name \in CloseCommands -> seq.state = "Publishing" \/ seq.state = "Playing"
    [] OTHER -> TRUE

(* CommandSequence::is_valid_command *)
is_valid_command(seq, name) ==
  CASE name = "connect" -> seq.state = "Initial"
    [] name \in {"releaseStream", "FCPublish"} -> TRUE
    [] name = "createStream" -> seq.state = "Connected" \/ seq.state = "Initial"
    [] name = "publish" -> seq.state = "StreamCreated"
    [] name = "play" -> seq.state = "StreamCreated"
    [] name \in CloseCommands -> seq.state = "Publishing" \/ seq.state = "Playing"
    [] OTHER -> TRUE

(* CommandSequence::on_command *)
on_command(seq, name) ==
  CASE name = "connect" -> [seq EXCEPT !.state = "Connected"]
    [] name = "createStream" -> [seq EXCEPT !.state = "StreamCreated"]
    [] name = "publish" -> [seq EXCEPT !.state = "Publishing"]
    [] name = "play" -> [seq EXCEPT !.state = "Playing"]
    [] name \in CloseCommands -> [seq EXCEPT !.state = "Connected"]
    [] OTHER -> seq

NoCmdCall == [op |-> "none", name |-> "none", ret |-> FALSE, n |-> 0]

CmdAside ==
  /\ cmdseq = CommandSequenceNew
  /\ cmd_call = NoCmdCall
  /\ cmd_log = <<>>

-----------------------------------------------------------------------------
(* TimestampNormalizer (protocol/quirks.rs). *)

(* TimestampNormalizer::new *)
TimestampNormalizerNew == [last_timestamp |-> 0, offset |-> 0]

(* The test of normalize: a regression of more than one second. *)
significant_regression(nz, timestamp) ==
  /\ u32_lt(timestamp, nz.last_timestamp)
  /\ u32_gt(u32_wrapping_sub(nz.last_timestamp, timestamp), 1000)

(* What normalize returns and leaves behind; the panic is that of          *)
(* `self.last_timestamp + 1` in a build with overflow checks.              *)
NormResult(nz, ret, panic) == [nz |-> nz, ret |-> ret, panic |-> panic]

normalize_from_one_second(nz, timestamp, checks) ==
  LET regressed == /\ u32_lt(timestamp, nz.last_timestamp)
                   /\ u32_ge(u32_wrapping_sub(nz.last_timestamp, timestamp), 1000)
  IN  IF regressed /\ checks /\ u32_add_overflows(nz.last_timestamp, 1)
        THEN NormResult(nz, NoneOpt, TRUE)
        ELSE LET offset == IF regressed THEN u32_wrapping_add(nz.last_timestamp, 1)
                                        ELSE nz.offset
                 normalized == u32_wrapping_add(timestamp, offset)
             IN  NormResult([last_timestamp |-> normalized, offset |-> offset],
                            Some(normalized), FALSE)

(* TimestampNormalizer::normalize *)
normalize(nz, timestamp, checks) ==
  LET regressed == significant_regression(nz, timestamp)
  IN  IF regressed /\ checks /\ u32_add_overflows(nz.last_timestamp, 1)
        THEN NormResult(nz, NoneOpt, TRUE)
        ELSE LET offset == IF regressed THEN u32_wrapping_add(nz.last_timestamp, 1)
                                        ELSE nz.offset
                 normalized == u32_wrapping_add(timestamp, offset)
             IN  NormResult([last_timestamp |-> normalized, offset |-> offset],
                            Some(normalized), FALSE)

(* TimestampNormalizer::reset *)
normalizer_reset(nz) == [nz EXCEPT !.last_timestamp = 0, !.offset = 0]

NoNormCall == [op |-> "none", n |-> 0, ret |-> NoneOpt, panic |-> FALSE]

NormAside ==
  /\ norm = TimestampNormalizerNew
  /\ norm_call = NoNormCall
  /\ norm_in = <<>>
  /\ norm_out = <<>>

-----------------------------------------------------------------------------
(* RtmpServer (server/listener.rs), as far as admission and shutdown go.   *)

(* RtmpServer::with_registry_config: the semaphore exists when             *)
(* max_connections > 0 and then starts with that many permits.             *)
RtmpServerNew(max_connections) ==
  [max_connections |-> max_connections,
   connection_semaphore |-> IF max_connections > 0 THEN Some(max_connections) ELSE NoneOpt,
   next_session_id |-> 1,
   pc |-> "created",
   result |-> "none"]

(* Semaphore::try_acquire_owned on the server's semaphore: some permit, or *)
(* none when all are taken; a server without a semaphore always goes on.   *)
try_acquire_owned(server) ==
  IF server.connection_semaphore = NoneOpt THEN "no_semaphore"
  ELSE IF server.connection_semaphore = Some(0) THEN "no_permits"
  ELSE "permit"

(* The permits of the semaphore with d more (d < 0: fewer). *)
with_permits(server, d) ==
  [server EXCEPT !.connection_semaphore = {p + d : p \in @}]

(* The cleanup task before run_until spawned it. *)
NoCleanupTask == [pc |-> "none", abort |-> FALSE, polls |-> 0, sweeps |-> 0, late_sweeps |-> 0]

(* StreamRegistry::spawn_cleanup_task: the task starts at ticker.tick().   *)
spawn_cleanup_task == [NoCleanupTask EXCEPT !.pc = "tick"]

(* JoinHandle::abort (tokio): a task that waits at an await is cancelled   *)
(* there; a task that is being polled is cancelled when it next yields.    *)
abort(t) ==
  [t EXCEPT !.abort = TRUE,
            !.pc = IF @ = "tick" THEN "cancelled" ELSE @]

NoAccept == [n |-> 0, outcome |-> "none", session_id |-> 0, live |-> 0]

SrvAside ==
  /\ srv = RtmpServerNew(0)
  /\ shutdown_fired = FALSE
  /\ conns = {}
  /\ cleanup_task = NoCleanupTask
  /\ srv_accept = NoAccept

-----------------------------------------------------------------------------
(* AMF0 (amf/amf0.rs, amf/value.rs).  A buffer is a sequence of bytes and a *)
(* String is the sequence of its UTF-8 bytes.  An f64 is written as the 8   *)
(* bytes of its IEEE 754 bit pattern, most significant first, which is what *)
(* put_f64 writes and get_f64 reads.  A HashMap is a function from its keys *)
(* to its values: two maps are equal when they hold the same entries.       *)

MARKER_NUMBER == 0
MARKER_BOOLEAN == 1
MARKER_STRING == 2
MARKER_OBJECT == 3
MARKER_NULL == 5
MARKER_UNDEFINED == 6
MARKER_REFERENCE == 7
MARKER_ECMA_ARRAY == 8
MARKER_OBJECT_END == 9
MARKER_STRICT_ARRAY == 10
MARKER_DATE == 11
MARKER_LONG_STRING == 12
MARKER_UNSUPPORTED == 13
MARKER_XML_DOCUMENT == 15
MARKER_TYPED_OBJECT == 16
MARKER_AVMPLUS == 17
MAX_NESTING_DEPTH == 64
U16Max == 65535

AmfNull == [t |-> "Null"]
AmfUndefined == [t |-> "Undefined"]
AmfBoolean(b) == [t |-> "Boolean", b |-> b]
AmfNumber(n) == [t |-> "Number", n |-> n]
AmfInteger(i) == [t |-> "Integer", i |-> i]
AmfString(s) == [t |-> "String", s |-> s]
AmfArray(elements) == [t |-> "Array", elements |-> elements]
AmfObject(props) == [t |-> "Object", props |-> props]
AmfTypedObject(class_name, props) ==
  [t |-> "TypedObject", class_name |-> class_name, props |-> props]
AmfDate(timestamp) == [t |-> "Date", timestamp |-> timestamp]
AmfXml(s) == [t |-> "Xml", s |-> s]
AmfByteArray(bytes) == [t |-> "ByteArray", bytes |-> bytes]
AmfEcmaArray(props) == [t |-> "EcmaArray", props |-> props]

HashMapNew == [k \in {} |-> AmfNull]

(* BufMut::put_u16, put_u32 (big endian) and Buf::get_u16, get_u32. *)
put_u16(n) == <<n \div 256, n % 256>>
put_u32(n) == <<n \div 16777216, (n \div 65536) % 256, (n \div 256) % 256, n % 256>>
get_u16(buf) == buf[1] * 256 + buf[2]
get_u32(buf) == buf[1] * 16777216 + buf[2] * 65536 + buf[3] * 256 + buf[4]
advance(buf, n) == SubSeq(buf, n + 1, Len(buf))

(* `i as f64` for an i32: sign, biased exponent and fraction of the double, *)
(* as 64 bits, packed into 8 bytes.                                         *)
RECURSIVE pow2(_)
pow2(e) == IF e = 0 THEN 1 ELSE 2 * pow2(e - 1)
bits_of(n, width) == [j \in 1 .. width |-> (n \div pow2(width - j)) % 2]
byte_of_bits(bits, at) ==
  bits[at] * 128 + bits[at + 1] * 64 + bits[at + 2] * 32 + bits[at + 3] * 16
    + bits[at + 4] * 8 + bits[at + 5] * 4 + bits[at + 6] * 2 + bits[at + 7]
f64_of_i32(i) ==
  IF i = 0
    THEN <<0, 0, 0, 0, 0, 0, 0, 0>>
    ELSE LET a == IF i < 0 THEN 0 - i ELSE i
             e == CHOOSE x \in 0 .. 30 : pow2(x) <= a /\ a \div 2 < pow2(x)
             top == (IF i < 0 THEN 2048 ELSE 0) + 1023 + e
             bits == bits_of(top, 12) \o bits_of(a - pow2(e), e) \o [j \in 1 .. 52 - e |-> 0]
         IN  [b \in 1 .. 8 |-> byte_of_bits(bits, 8 * (b - 1) + 1)]

(* Amf0Encoder::write_utf8: at most 0xFFFF bytes of the string are written. *)
write_utf8(s) ==
  LET len == IF Len(s) < U16Max THEN Len(s) ELSE U16Max
  IN  put_u16(len) \o SubSeq(s, 1, len)

(* What encode writes before and after the entries of a container. *)
container_head(value) ==
  CASE value.t = "Object" -> <<MARKER_OBJECT>>
    [] value.t = "EcmaArray" ->
         <<MARKER_ECMA_ARRAY>> \o put_u32(Cardinality(DOMAIN value.props))
    [] value.t = "Array" -> <<MARKER_STRICT_ARRAY>> \o put_u32(Len(value.elements))
    [] value.t = "TypedObject" -> <<MARKER_TYPED_OBJECT>> \o write_utf8(value.class_name)
container_tail(value) ==
  IF value.t = "Array" THEN << >> ELSE put_u16(0) \o <<MARKER_OBJECT_END>>

(* Amf0Encoder::encode.  A HashMap is iterated in an order the program does *)
(* not choose, so encode has one outcome for every order of every map in    *)
(* the value: encode(value) is the set of the byte strings it can write.    *)
RECURSIVE encode(_), encode_props(_), encode_elements(_)
encode(value) ==
  CASE value.t = "Null" -> {<<MARKER_NULL>>}
    [] value.t = "Undefined" -> {<<MARKER_UNDEFINED>>}
    [] value.t = "Boolean" -> {<<MARKER_BOOLEAN, IF value.b THEN 1 ELSE 0>>}
    [] value.t = "Number" -> {<<MARKER_NUMBER>> \o value.n}
    [] value.t = "Integer" -> {<<MARKER_NUMBER>> \o f64_of_i32(value.i)}
    [] value.t = "String" ->
         {(IF Len(value.s) > U16Max
             THEN <<MARKER_LONG_STRING>> \o put_u32(Len(value.s))
             ELSE <<MARKER_STRING>> \o put_u16(Len(value.s))) \o value.s}
    [] value.t \in {"Object", "EcmaArray", "TypedObject"} ->
         {container_head(value) \o p \o container_tail(value) :
            p \in encode_props(value.props)}
    [] value.t = "Array" ->
         {container_head(value) \o p \o container_tail(value) :
            p \in encode_elements(value.elements)}
    [] value.t = "Date" -> {<<MARKER_DATE>> \o value.timestamp \o <<0, 0>>}
    [] value.t = "Xml" -> {<<MARKER_XML_DOCUMENT>> \o put_u32(Len(value.s)) \o value.s}
    [] value.t = "ByteArray" -> {<<MARKER_NULL>>}

(* `for (key, val) in props { write_utf8(key); encode(val) }`, any order. *)
encode_props(props) ==
  IF DOMAIN props = {}
    THEN {<< >>}
    ELSE UNION {{write_utf8(k) \o e \o rest :
                   e \in encode(props[k]),
                   rest \in encode_props([x \in DOMAIN props \ {k} |-> props[x]])} :
                k \in DOMAIN props}

(* `for elem in elements { encode(elem) }`. *)
encode_elements(elements) ==
  IF elements = << >>
    THEN {<< >>}
    ELSE {e \o rest : e \in encode(Head(elements)), rest \in encode_elements(Tail(elements))}

(* Amf0Decoder::new, with_lenient and reset. *)
Amf0DecoderWithLenient(lenient) == [references |-> << >>, lenient |-> lenient, depth |-> 0]
Amf0DecoderNew == Amf0DecoderWithLenient(TRUE)
decoder_reset(dec) == [dec EXCEPT !.references = << >>, !.depth = 0]

(* What a decoding function leaves: the decoder, the rest of the buffer and *)
(* its Result.                                                              *)
AmfOk(dec, buf, value) == [dec |-> dec, buf |-> buf, ok |-> TRUE, value |-> value]
AmfErr(dec, buf, err) == [dec |-> dec, buf |-> buf, ok |-> FALSE, err |-> err]

(* String::from_utf8 accepts the bytes: well-formed UTF-8 (Unicode 3.9,    *)
(* table 3-7).                                                              *)
from_utf8_ok(bytes) ==
  LET n == Len(bytes)
      is_cont(i) == i <= n /\ bytes[i] >= 128 /\ bytes[i] <= 191
      within(i, lo, hi) == i <= n /\ bytes[i] >= lo /\ bytes[i] <= hi
      follow(i) == LET b == bytes[i]
                   IN  IF b < 128 THEN 0
                       ELSE IF b >= 194 /\ b <= 223 THEN 1
                       ELSE IF b >= 224 /\ b <= 239 THEN 2
                       ELSE IF b >= 240 /\ b <= 244 THEN 3
                       ELSE 0 - 1
      second_ok(i) == LET b == bytes[i]
                      IN  within(i + 1, IF b = 224 THEN 160 ELSE IF b = 240 THEN 144 ELSE 128,
                                        IF b = 237 THEN 159 ELSE IF b = 244 THEN 143 ELSE 191)
  IN  /\ ~is_cont(1)
      /\ \A i \in 1 .. n :
            is_cont(i) \/
              /\ follow(i) >= 0
              /\ follow(i) > 0 => second_ok(i)
              /\ \A j \in 1 .. follow(i) : is_cont(i + j)
              /\ ~is_cont(i + follow(i) + 1)

(* read_utf8 and read_utf8_long: a length of 2 or 4 bytes, then the bytes. *)
read_prefixed(dec, buf, width) ==
  IF Len(buf) < width
    THEN AmfErr(dec, buf, "UnexpectedEof")
    ELSE LET len == IF width = 2 THEN get_u16(buf) ELSE get_u32(buf)
             rest == advance(buf, width)
         IN  IF Len(rest) < len
               THEN AmfErr(dec, rest, "UnexpectedEof")
               ELSE IF from_utf8_ok(SubSeq(rest, 1, len))
                 THEN AmfOk(dec, advance(rest, len), SubSeq(rest, 1, len))
                 ELSE AmfErr(dec, advance(rest, len), "InvalidUtf8")
read_utf8(dec, buf) == read_prefixed(dec, buf, 2)
read_utf8_long(dec, buf) == read_prefixed(dec, buf, 4)

(* self.references.push(AmfValue::Null) and self.references[index] = value. *)
push_placeholder(dec) == [dec EXCEPT !.references = Append(@, AmfNull)]
set_reference(dec, index, value) == [dec EXCEPT !.references[index] = value]

(* Amf0Decoder::decode tests the depth after it raised it. *)
depth_exceeded_above_65(depth) == depth > MAX_NESTING_DEPTH + 1
depth_exceeded(depth) == depth > MAX_NESTING_DEPTH

(* decode_value for the markers of values that hold no other value. *)
is_container(marker) ==
  marker \in {MARKER_OBJECT, MARKER_ECMA_ARRAY, MARKER_STRICT_ARRAY, MARKER_TYPED_OBJECT}
decode_value(dec, marker, buf) ==
  CASE marker = MARKER_NUMBER ->
         IF Len(buf) < 8 THEN AmfErr(dec, buf, "UnexpectedEof")
         ELSE AmfOk(dec, advance(buf, 8), AmfNumber(SubSeq(buf, 1, 8)))
    [] marker = MARKER_BOOLEAN ->
         IF buf = << >> THEN AmfErr(dec, buf, "UnexpectedEof")
         ELSE AmfOk(dec, advance(buf, 1), AmfBoolean(buf[1] # 0))
    [] marker = MARKER_STRING ->
         LET s == read_utf8(dec, buf)
         IN  IF s.ok THEN [s EXCEPT !.value = AmfString(@)] ELSE s
    [] marker = MARKER_LONG_STRING ->
         LET s == read_utf8_long(dec, buf)
         IN  IF s.ok THEN [s EXCEPT !.value = AmfString(@)] ELSE s
    [] marker = MARKER_NULL -> AmfOk(dec, buf, AmfNull)
    [] marker = MARKER_UNDEFINED -> AmfOk(dec, buf, AmfUndefined)
    [] marker = MARKER_REFERENCE ->
         IF Len(buf) < 2 THEN AmfErr(dec, buf, "UnexpectedEof")
         ELSE IF get_u16(buf) >= Len(dec.references)
           THEN AmfErr(dec, advance(buf, 2), "InvalidReference")
           ELSE AmfOk(dec, advance(buf, 2), dec.references[get_u16(buf) + 1])
    [] marker = MARKER_DATE ->
         IF Len(buf) < 10 THEN AmfErr(dec, buf, "UnexpectedEof")
         ELSE AmfOk(dec, advance(buf, 10), AmfDate(SubSeq(buf, 1, 8)))
    [] marker = MARKER_UNSUPPORTED -> AmfOk(dec, buf, AmfUndefined)
    [] marker = MARKER_XML_DOCUMENT ->
         LET s == read_utf8_long(dec, buf)
         IN  IF s.ok THEN [s EXCEPT !.value = AmfXml(@)] ELSE s
    [] marker = MARKER_AVMPLUS -> AmfOk(dec, buf, AmfNull)
    [] OTHER ->
         IF dec.lenient THEN AmfOk(dec, buf, AmfUndefined)
         ELSE AmfErr(dec, buf, "UnknownMarker")

(* The calls of decode that are in progress are kept as a stack of frames,  *)
(* one for every container whose body is being read: decode raised the      *)
(* depth for it, decode_object (or decode_ecma_array, decode_strict_array,  *)
(* decode_typed_object) put its placeholder at `index` and is in its loop.  *)
AmfFrame(kind, index, class_name, count) ==
  [kind |-> kind, index |-> index, class_name |-> class_name, count |-> count,
   key |-> << >>, properties |-> HashMapNew, elements |-> << >>]

(* `self.depth -= 1; result`: how decode ends once decode_value returned. *)
leave(r) == [r EXCEPT !.dec.depth = @ - 1]

(* The value a frame's function returns when its loop ended. *)
frame_value(frame) ==
  CASE frame.kind = "Object" -> AmfObject(frame.properties)
    [] frame.kind = "EcmaArray" -> AmfEcmaArray(frame.properties)
    [] frame.kind = "TypedObject" -> AmfTypedObject(frame.class_name, frame.properties)
    [] frame.kind = "Array" -> AmfArray(frame.elements)

(* Amf0Decoder::decode up to the loop of a container, or to its return for  *)
(* any other value: `opened` tells which.                                   *)
AmfOpened(dec, buf, frame) == [opened |-> TRUE, dec |-> dec, buf |-> buf, frame |-> frame]
AmfReturned(r) == [opened |-> FALSE, r |-> r]
decode(dec, buf) ==
  IF buf = << >>
    THEN AmfReturned(AmfErr(dec, buf, "UnexpectedEof"))
    ELSE LET d1 == [dec EXCEPT !.depth = @ + 1]
             marker == buf[1]
             rest == advance(buf, 1)
             index == Len(dec.references) + 1
         IN  IF depth_exceeded(d1.depth)
               THEN AmfReturned(AmfErr(d1, buf, "NestingTooDeep"))
             ELSE IF ~is_container(marker)
               THEN AmfReturned(leave(decode_value(d1, marker, rest)))
             ELSE IF marker = MARKER_OBJECT
               THEN AmfOpened(push_placeholder(d1), rest, AmfFrame("Object", index, << >>, 0))
             ELSE IF marker = MARKER_TYPED_OBJECT
               THEN LET name == read_utf8(d1, rest)
                    IN  IF name.ok
                          THEN AmfOpened(push_placeholder(d1), name.buf,
                                         AmfFrame("TypedObject", index, name.value, 0))
                          ELSE AmfReturned(leave(name))
             ELSE IF Len(rest) < 4
               THEN AmfReturned(leave(AmfErr(d1, rest, "UnexpectedEof")))
             ELSE IF marker = MARKER_ECMA_ARRAY
               THEN AmfOpened(push_placeholder(d1), advance(rest, 4),
                              AmfFrame("EcmaArray", index, << >>, 0))
               ELSE AmfOpened(push_placeholder(d1), advance(rest, 4),
                              AmfFrame("Array", index, << >>, get_u32(rest)))

(* properties.insert(key, value) or elements.push(value) with the value a   *)
(* nested decode returned.                                                  *)
frame_insert(frame, value) ==
  IF frame.kind = "Array"
    THEN [frame EXCEPT !.elements = Append(@, value), !.count = @ - 1]
    ELSE [frame EXCEPT !.properties = map_insert(@, frame.key, value), !.key = << >>]

(* One turn of a container's loop.  It ends the loop (`done`: the function  *)
(* returns r, and decode, which called it, lowers the depth), or calls      *)
(* decode for the next value (`call`: where, and the key it goes under).    *)
AmfDone(r) == [done |-> TRUE, r |-> leave(r)]
AmfCalls(dec, buf, key) == [done |-> FALSE, dec |-> dec, buf |-> buf, key |-> key]
loop_turn(dec, buf, frame) ==
  IF frame.kind = "Array"
    THEN IF frame.count = 0
           THEN AmfDone(AmfOk(set_reference(dec, frame.index, frame_value(frame)), buf,
                              frame_value(frame)))
           ELSE AmfCalls(dec, buf, << >>)
    ELSE LET key == read_utf8(dec, buf)
             closed == AmfOk(set_reference(dec, frame.index, frame_value(frame)),
                             IF key.buf = << >> THEN key.buf ELSE advance(key.buf, 1),
                             frame_value(frame))
         IN  IF ~key.ok THEN AmfDone(key)
             ELSE IF key.value # << >> THEN AmfCalls(dec, key.buf, key.value)
             ELSE IF key.buf = << >>
               THEN IF dec.lenient THEN AmfDone(closed)
                    ELSE AmfDone(AmfErr(dec, key.buf, "UnexpectedEof"))
             ELSE IF key.buf[1] = MARKER_OBJECT_END \/ dec.lenient
               THEN AmfDone(closed)
               ELSE AmfDone(AmfErr(dec, advance(key.buf, 1), "InvalidObjectEnd"))

NoAmfCall == [n |-> 0, op |-> "none", returned |-> TRUE]
NoAmfRun == [stack |-> << >>, buf |-> << >>, err |-> "none"]

AmfAside ==
  /\ amf_dec = Amf0DecoderNew
  /\ amf_call = NoAmfCall
  /\ amf_run = NoAmfRun

(* The specifications of the registry leave the protocol machines aside. *)
ProtoAside ==
  HsAside /\ BuildAside /\ SessAside /\ CmdAside /\ NormAside /\ SrvAside /\ AmfAside

-----------------------------------------------------------------------------
(* StreamRegistry::new: an empty map, no call in flight. *)
RegistryInit ==
  /\ streams = [k \in {} |-> 0]
  /\ task = [t \in Sessions |-> Idle]
  /\ held = [t \in Sessions |-> {}]
  /\ publishing = [t \in Sessions |-> {}]
  /\ cleanup_pc = "sleep"
  /\ now = 0

(* No channel exists yet and no session owns a receiver. *)
NoDelivery == [kind |-> "none"]
ChannelInit ==
  /\ tx = [k \in {} |-> 0]
  /\ channels = << >>
  /\ rx = [t \in Sessions |-> NoneOpt]
  /\ got = [t \in Sessions |-> NoDelivery]
  /\ catchup = [t \in Sessions |-> << >>]
  /\ calls = [k \in Keys |-> 0]
  /\ sent = [k \in {} |-> 0]
  /\ gop_by = [k \in {} |-> 0]
  /\ regs = [k \in {} |-> 0]

NoCall == [op |-> "none", n |-> 0]
GopAside ==
  /\ gop = GopBufferWithMaxSize(max_gop_size)
  /\ gop_call = NoCall

Init == RegistryInit /\ ChannelInit /\ GopAside /\ ProtoAside

(* A session calls a handler and is granted the map lock (the handler's     *)
(* first await).  A session plays a key at most once at a time: it          *)
(* subscribes to a key it is not subscribed to, and unsubscribes from a key *)
(* it is subscribed to.                                                     *)
AcquireMap(t, op, k) ==
  /\ task[t].pc = "idle"
  /\ cleanup_pc # "write"
  /\ IF op \in MapWriteOps
       THEN can_write(MapReaders, MapWriters)
       ELSE can_read(MapReaders, MapWriters)
  /\ op = "subscribe" => k \notin held[t]
  /\ op = "unsubscribe" => k \in held[t]
  /\ task' = [task EXCEPT ![t] = [pc |-> "map", op |-> op, key |-> k, res |-> "none"]]
  /\ UNCHANGED <<proto_vars, channel_vars, gop_vars, streams, held, publishing, cleanup_pc, now>>

(* streams.get(key) is Some: the handler is granted the entry lock. *)
AcquireEntry(t) ==
  /\ task[t].pc = "map"
  /\ task[t].key \in DOMAIN streams
  /\ IF task[t].op \in EntryWriteOps
       THEN can_write(EntryReaders(task[t].key), EntryWriters(task[t].key))
       ELSE can_read(EntryReaders(task[t].key), EntryWriters(task[t].key))
  /\ task' = [task EXCEPT ![t].pc = "entry"]
  /\ UNCHANGED <<proto_vars, channel_vars, gop_vars, streams, held, publishing, cleanup_pc, now>>

(* register_publisher, else branch: a new entry is inserted. *)
RegisterPublisherNew(t) ==
  /\ task[t].pc = "map"
  /\ task[t].op = "register_publisher"
  /\ task[t].key \notin DOMAIN streams
  /\ streams' = map_insert(streams, task[t].key, register_new(t, now))
  /\ task' = [task EXCEPT ![t] = Returned("Ok")]
  /\ publishing' = [publishing EXCEPT ![t] = @ \cup {task[t].key}]
  /\ UNCHANGED <<proto_vars, channel_vars, gop_vars, held, cleanup_pc, now>>

(* register_publisher on an existing entry. *)
RegisterPublisherExisting(t) ==
  /\ task[t].pc = "entry"
  /\ task[t].op = "register_publisher"
  /\ LET k == task[t].key
     IN  /\ streams' = [streams EXCEPT ![k] = register_existing(streams[k], t)]
         /\ task' = [task EXCEPT ![t] =
                       Returned(IF register_rejected(streams[k])
                                  THEN "StreamAlreadyPublishing" ELSE "Ok")]
         /\ publishing' = IF register_rejected(streams[k])
                            THEN publishing
                            ELSE [publishing EXCEPT ![t] = @ \cup {k}]
  /\ UNCHANGED <<proto_vars, channel_vars, gop_vars, held, cleanup_pc, now>>

UnregisterPublisher(t) ==
  /\ task[t].pc = "entry"
  /\ task[t].op = "unregister_publisher"
  /\ LET k == task[t].key
     IN  /\ streams' = [streams EXCEPT ![k] = unregister_entry(streams[k], t, now)]
         /\ task' = [task EXCEPT ![t] =
                       Returned(IF unregister_mismatch(streams[k], t)
                                  THEN "Mismatch" ELSE "Disconnected")]
         /\ publishing' = [publishing EXCEPT ![t] = @ \ {k}]
  /\ UNCHANGED <<proto_vars, channel_vars, gop_vars, held, cleanup_pc, now>>

Subscribe(t) ==
  /\ task[t].pc = "entry"
  /\ task[t].op = "subscribe"
  /\ LET k == task[t].key
         refused == subscribe_not_active(streams[k])
     IN  /\ streams' = [streams EXCEPT ![k] = subscribe_entry(streams[k])]
         /\ task' = [task EXCEPT ![t] =
                       Returned(IF refused THEN "StreamNotActive" ELSE "Subscribed")]
         /\ held' = IF refused THEN held ELSE [held EXCEPT ![t] = @ \cup {k}]
  /\ UNCHANGED <<proto_vars, channel_vars, gop_vars, publishing, cleanup_pc, now>>

Unsubscribe(t) ==
  /\ task[t].pc = "entry"
  /\ task[t].op = "unsubscribe"
  /\ LET k == task[t].key
     IN  /\ streams' = [streams EXCEPT ![k] = unsubscribe_entry(streams[k])]
         /\ held' = [held EXCEPT ![t] = @ \ {k}]
  /\ task' = [task EXCEPT ![t] = Returned("Unsubscribed")]
  /\ UNCHANGED <<proto_vars, channel_vars, gop_vars, publishing, cleanup_pc, now>>

(* broadcast: update_caches, then the frame is handed to the entry's sender. *)
Broadcast(t) ==
  /\ task[t].pc = "entry"
  /\ task[t].op = "broadcast"
  /\ \E frame \in BroadcastInputs :
       streams' = [streams EXCEPT ![task[t].key] = update_caches(@, frame)]
  /\ task' = [task EXCEPT ![t] = Returned("Sent")]
  /\ UNCHANGED <<proto_vars, channel_vars, gop_vars, held, publishing, cleanup_pc, now>>

(* streams.get(key) is None in a handler other than register_publisher:     *)
(* subscribe fails with StreamNotFound, the others return without effect.   *)
KeyAbsent(t) ==
  /\ task[t].pc = "map"
  /\ task[t].op # "register_publisher"
  /\ task[t].key \notin DOMAIN streams
  /\ task' = [task EXCEPT ![t] =
                Returned(IF task[t].op = "subscribe" THEN "StreamNotFound" ELSE "NoStream")]
  /\ held' = IF task[t].op = "unsubscribe"
               THEN [held EXCEPT ![t] = @ \ {task[t].key}] ELSE held
  /\ publishing' = IF task[t].op = "unregister_publisher"
                     THEN [publishing EXCEPT ![t] = @ \ {task[t].key}] ELSE publishing
  /\ UNCHANGED <<proto_vars, channel_vars, gop_vars, streams, cleanup_pc, now>>

(* cleanup: the keys whose entry could be try_read and should be removed. *)
keys_to_remove(m, instant) ==
  {k \in DOMAIN m :
     can_read(EntryReaders(k), EntryWriters(k)) /\ should_remove(m[k], instant)}

(* spawn_cleanup_task: the interval fires and cleanup() asks for the map   *)
(* write lock.                                                            *)
CleanupTick ==
  /\ cleanup_pc = "sleep"
  /\ cleanup_pc' = "write"
  /\ UNCHANGED <<proto_vars, channel_vars, gop_vars, streams, task, held, publishing, now>>

(* cleanup: granted the map write lock, it sweeps without any await and  *)
(* the task goes back to its ticker.                                     *)
Cleanup ==
  /\ cleanup_pc = "write"
  /\ can_write(MapReaders, MapWriters)
  /\ streams' = map_remove_all(streams, keys_to_remove(streams, now))
  /\ cleanup_pc' = "sleep"
  /\ UNCHANGED <<proto_vars, channel_vars, gop_vars, task, held, publishing, now>>

(* Time passes. *)
Tick ==
  /\ now < MaxTime
  /\ now' = now + 1
  /\ UNCHANGED <<proto_vars, channel_vars, gop_vars, streams, task, held, publishing, cleanup_pc>>

Next ==
  \/ \E t \in Sessions, op \in Ops, k \in Keys : AcquireMap(t, op, k)
  \/ \E t \in Sessions : AcquireEntry(t)
  \/ \E t \in Sessions : RegisterPublisherNew(t)
  \/ \E t \in Sessions : RegisterPublisherExisting(t)
  \/ \E t \in Sessions : UnregisterPublisher(t)
  \/ \E t \in Sessions : Subscribe(t)
  \/ \E t \in Sessions : Unsubscribe(t)
  \/ \E t \in Sessions : Broadcast(t)
  \/ \E t \in Sessions : KeyAbsent(t)
  \/ CleanupTick
  \/ Cleanup
  \/ Tick

Spec == Init /\ [][Next]_vars

(* What the scheduling guarantees.  A handler past its first await has no   *)
(* await left but the entry lock, and the locks are fair (FIFO), so every   *)
(* call in flight returns; the cleanup task's interval keeps firing and its *)
(* queued write() is served once the guards handed out before it are        *)
(* dropped; the clock advances (up to the model's horizon MaxTime).         *)
SessionStep(t) ==
  \/ AcquireEntry(t)
  \/ RegisterPublisherNew(t)
  \/ RegisterPublisherExisting(t)
  \/ UnregisterPublisher(t)
  \/ Subscribe(t)
  \/ Unsubscribe(t)
  \/ Broadcast(t)
  \/ KeyAbsent(t)

Fairness ==
  /\ WF_vars(Tick)
  /\ WF_vars(CleanupTick)
  /\ WF_vars(Cleanup)
  /\ \A t \in Sessions : WF_vars(SessionStep(t))

FairSpec == Spec /\ Fairness

-----------------------------------------------------------------------------
(* Vocabulary of the properties. *)

Entry(k) == streams[k]
Present(k) == k \in DOMAIN streams

(* The handler `op` of session t, holding the entry lock, returns in this step. *)
BodyStep(t, op) ==
  /\ task[t].pc = "entry"
  /\ task[t].op = op
  /\ task'[t].pc = "idle"

(* The handler `op` of session t returns in this step, having found no entry. *)
AbsentStep(t, op) ==
  /\ task[t].pc = "map"
  /\ task[t].op = op
  /\ task[t].key \notin DOMAIN streams
  /\ task'[t].pc = "idle"

-----------------------------------------------------------------------------
(* C1 (I1): in every reachable state, every stream entry has a publisher_id *)
(* if and only if its state is Active.                                      *)
C1_PublisherIffActive ==
  \A k \in DOMAIN streams :
    is_some(Entry(k).publisher_id) <=> Entry(k).state = "Active"

(* An entry that went through register, broadcast, subscribe and unregister. *)
C1_Witness ==
  \E k \in DOMAIN streams :
    /\ Entry(k).state = "GracePeriod"
    /\ is_none(Entry(k).publisher_id)
    /\ is_some(Entry(k).video_header)
    /\ u32_positive(Entry(k).subscriber_count)

(* C2 (I7): register_publisher on an entry that is Active with an owner      *)
(* returns StreamAlreadyPublishing and leaves the registry as it was, and at *)
(* any time at most one session is the publisher of a key: every session     *)
(* whose register_publisher succeeded and that has not unregistered since is *)
(* the entry's publisher_id.                                                 *)
C2_RejectStep ==
  \A t \in Sessions :
    (/\ BodyStep(t, "register_publisher")
     /\ Entry(task[t].key).state = "Active"
     /\ is_some(Entry(task[t].key).publisher_id))
    => (/\ task'[t].res = "StreamAlreadyPublishing"
        /\ streams' = streams
        /\ publishing' = publishing)

C2_SingleOwner ==
  \A k \in Keys :
    /\ Cardinality({t \in Sessions : k \in publishing[t]}) <= 1
    /\ \A t \in Sessions :
         k \in publishing[t] =>
           /\ Present(k)
           /\ Entry(k).publisher_id = Some(t)
           /\ Entry(k).state = "Active"

C2_ActiveOwnerRejects == [][C2_RejectStep]_vars /\ []C2_SingleOwner

(* A second session was rejected while the first one still owns the key. *)
C2_Witness ==
  \E t1, t2 \in Sessions, k \in DOMAIN streams :
    /\ t1 # t2
    /\ task[t2].res = "StreamAlreadyPublishing"
    /\ k \in publishing[t1]
    /\ Entry(k).publisher_id = Some(t1)
    /\ u32_positive(Entry(k).subscriber_count)

(* C3 (I8): register_publisher on an entry in GracePeriod succeeds, and the  *)
(* entry is then Active, owned by the caller, publisher_disconnected_at      *)
(* cleared; the call is never kept waiting for the entry lock.               *)
C3_ReclaimStep ==
  \A t \in Sessions :
    (/\ BodyStep(t, "register_publisher")
     /\ Entry(task[t].key).state = "GracePeriod")
    => (/\ task'[t].res = "Ok"
        /\ task[t].key \in DOMAIN streams'
        /\ streams'[task[t].key].state = "Active"
        /\ streams'[task[t].key].publisher_id = Some(t)
        /\ is_none(streams'[task[t].key].publisher_disconnected_at))

C3_NeverBlocked ==
  \A t \in Sessions :
    (task[t].pc = "map" /\ task[t].op = "register_publisher" /\ Present(task[t].key))
    => can_write(EntryReaders(task[t].key), EntryWriters(task[t].key))

C3_GraceReclaim == [][C3_ReclaimStep]_vars /\ []C3_NeverBlocked

(* A session other than the one that disconnected took the key over while   *)
(* a subscriber was still counted.                                         *)
C3_Witness ==
  \E t \in Sessions, k \in DOMAIN streams :
    /\ task[t].res = "Ok"
    /\ Entry(k).publisher_id = Some(t)
    /\ Entry(k).state = "Active"
    /\ u32_positive(Entry(k).subscriber_count)
    /\ \E t1 \in Sessions \ {t} : task[t1].res = "Disconnected"

(* C4: as claimed, in every reachable state an entry in GracePeriod has     *)
(* subscriber_count > 0 and publisher_disconnected_at set.                  *)
C4_GraceHasSubscribers ==
  \A k \in DOMAIN streams :
    Entry(k).state = "GracePeriod" =>
      /\ u32_positive(Entry(k).subscriber_count)
      /\ is_some(Entry(k).publisher_disconnected_at)

(* C4, amended: an entry in GracePeriod has publisher_disconnected_at set   *)
(* (at an instant not in the future) and no publisher, and subscriber_count *)
(* is > 0 in the step by which the entry enters GracePeriod; afterwards the *)
(* count may fall to 0 while the entry stays in GracePeriod.                *)
C4_GraceState ==
  \A k \in DOMAIN streams :
    Entry(k).state = "GracePeriod" =>
      /\ is_some(Entry(k).publisher_disconnected_at)
      /\ unwrap(Entry(k).publisher_disconnected_at) <= now
      /\ is_none(Entry(k).publisher_id)

C4_EnterStep ==
  \A k \in DOMAIN streams' :
    (/\ streams'[k].state = "GracePeriod"
     /\ ~(Present(k) /\ Entry(k).state = "GracePeriod"))
    => (/\ Present(k)
        /\ u32_positive(Entry(k).subscriber_count)
        /\ streams'[k].subscriber_count = Entry(k).subscriber_count)

C4_GraceAmended == []C4_GraceState /\ [][C4_EnterStep]_vars

(* The last subscriber left while the entry was in its grace period. *)
C4_Witness ==
  \E k \in DOMAIN streams, t \in Sessions :
    /\ Entry(k).state = "GracePeriod"
    /\ Entry(k).subscriber_count = 0
    /\ is_some(Entry(k).publisher_disconnected_at)
    /\ task[t].res = "Unsubscribed"

(* C5: unregister_publisher by the current publisher clears publisher_id,    *)
(* sets publisher_disconnected_at to the current instant, moves the entry to *)
(* GracePeriod when subscriber_count > 0 and to Idle when it is 0, and keeps *)
(* the entry (with its count and caches) in the registry.                    *)
C5_OwnerStep ==
  \A t \in Sessions :
    (/\ BodyStep(t, "unregister_publisher")
     /\ Entry(task[t].key).publisher_id = Some(t))
    => LET k == task[t].key
           old == Entry(k)
       IN  /\ k \in DOMAIN streams'
           /\ DOMAIN streams' = DOMAIN streams
           /\ is_none(streams'[k].publisher_id)
           /\ streams'[k].publisher_disconnected_at = Some(now)
           /\ old.subscriber_count # 0 => streams'[k].state = "GracePeriod"
           /\ old.subscriber_count = 0 => streams'[k].state = "Idle"
           /\ streams'[k].subscriber_count = old.subscriber_count
           /\ streams'[k].video_header = old.video_header

C5_OwnerUnregisters == [][C5_OwnerStep]_vars

(* The publisher has just disconnected, at an instant later than 0, with a *)
(* subscriber counted.                                                    *)
C5_Witness ==
  \E k \in DOMAIN streams, t \in Sessions :
    /\ task[t].res = "Disconnected"
    /\ now > 0
    /\ Entry(k).publisher_disconnected_at = Some(now)
    /\ Entry(k).state = "GracePeriod"
    /\ Entry(k).subscriber_count = 1

(* C6: unregister_publisher by a session that is not the entry's current    *)
(* publisher (another session is, or nobody is, or the key has no entry)    *)
(* changes nothing in the registry.                                         *)
C6_StrangerStep ==
  \A t \in Sessions :
    (\/ (BodyStep(t, "unregister_publisher")
           /\ Entry(task[t].key).publisher_id # Some(t))
     \/ AbsentStep(t, "unregister_publisher"))
    => streams' = streams

C6_StrangerUnregisters == [][C6_StrangerStep]_vars

(* A session that had disconnected called unregister_publisher again after *)
(* another session took the key over; the new owner is still in place.     *)
C6_Witness ==
  \E k \in DOMAIN streams, t1, t2 \in Sessions :
    /\ t1 # t2
    /\ task[t1].res = "Mismatch"
    /\ task[t2].res = "Ok"
    /\ Entry(k).publisher_id = Some(t2)
    /\ Entry(k).state = "Active"
    /\ u32_positive(Entry(k).subscriber_count)

(* C7: subscribe returns StreamNotFound when the key has no entry and         *)
(* StreamNotActive when the entry is Idle without publisher, and succeeds     *)
(* when the entry is Active or in GracePeriod; the count goes up by exactly   *)
(* one on success and the registry is unchanged on either error.              *)
C7_SubscribeStep ==
  \A t \in Sessions :
    /\ AbsentStep(t, "subscribe") =>
         /\ task'[t].res = "StreamNotFound"
         /\ streams' = streams
    /\ BodyStep(t, "subscribe") =>
         LET k == task[t].key
             old == Entry(k)
         IN  /\ (old.state = "Idle" /\ is_none(old.publisher_id)) =>
                  /\ task'[t].res = "StreamNotActive"
                  /\ streams' = streams
             /\ old.state \in {"Active", "GracePeriod"} =>
                  /\ task'[t].res = "Subscribed"
                  /\ DOMAIN streams' = DOMAIN streams
                  /\ streams'[k].subscriber_count =
                       (IF old.subscriber_count = -1 THEN 0 ELSE old.subscriber_count + 1)
                  /\ streams'[k].state = old.state
                  /\ streams'[k].publisher_id = old.publisher_id
             /\ task'[t].res \in {"StreamNotActive", "Subscribed"}

C8_UnsubscribeStep ==
  \A t \in Sessions :
    /\ AbsentStep(t, "unsubscribe") => streams' = streams
    /\ BodyStep(t, "unsubscribe") =>
         LET k == task[t].key
             old == Entry(k)
         IN  /\ DOMAIN streams' = DOMAIN streams
             /\ streams'[k].subscriber_count =
                  (IF old.subscriber_count = 0 THEN -1 ELSE old.subscriber_count - 1)
             /\ streams'[k].state = old.state
             /\ streams'[k].publisher_id = old.publisher_id
             /\ streams'[k].publisher_disconnected_at = old.publisher_disconnected_at
             /\ streams'[k].created_at = old.created_at
             /\ streams'[k].video_header = old.video_header
             /\ streams'[k].audio_header = old.audio_header
             /\ streams'[k].metadata = old.metadata
             /\ streams'[k].gop_buffer = old.gop_buffer

C8_UnsubscribeOnlyCounts == [][C8_UnsubscribeStep]_vars

(* The last subscriber of a published stream has left: the count is 0 and   *)
(* the entry is still there, Active, with its publisher.                    *)
C8_Witness ==
  \E k \in DOMAIN streams, t \in Sessions :
    /\ task[t].res = "Unsubscribed"
    /\ Entry(k).subscriber_count = 0
    /\ Entry(k).state = "Active"
    /\ is_some(Entry(k).publisher_id)
    /\ is_some(Entry(k).video_header)

(* C9: a cleanup sweep removes exactly the entries that are in GracePeriod  *)
(* with more than publisher_grace_period elapsed since                      *)
(* publisher_disconnected_at, or Idle with more than idle_stream_timeout    *)
(* elapsed since the disconnect (since creation when there was none); the   *)
(* entries it keeps are unchanged, and no other step removes an entry.      *)
C9_Elapsed(e) ==
  now - (IF is_some(e.publisher_disconnected_at)
           THEN unwrap(e.publisher_disconnected_at) ELSE e.created_at)

C9_Expired(e) ==
  \/ e.state = "GracePeriod" /\ is_some(e.publisher_disconnected_at)
       /\ C9_Elapsed(e) >= publisher_grace_period + 1
  \/ e.state = "Idle" /\ C9_Elapsed(e) >= idle_stream_timeout + 1

C9_CleanupStep ==
  /\ (cleanup_pc = "write" /\ cleanup_pc' = "sleep") =>
       /\ DOMAIN streams' = {k \in DOMAIN streams : ~C9_Expired(Entry(k))}
       /\ \A k \in DOMAIN streams' : streams'[k] = Entry(k)
  /\ ~(cleanup_pc = "write" /\ cleanup_pc' = "sleep") =>
       DOMAIN streams \subseteq DOMAIN streams'

C9_CleanupExact == [][C9_CleanupStep]_vars

(* A sweep has removed the entry of a publisher that had disconnected, and *)
(* the subscriber of that entry still holds its receiver.                  *)
C9_Witness ==
  /\ DOMAIN streams = {}
  /\ cleanup_pc = "sleep"
  /\ \E t1, t2 \in Sessions :
       /\ task[t1].res = "Disconnected"
       /\ held[t2] # {}

(* C10: an entry that is in GracePeriod or Idle is eventually removed from  *)
(* the registry unless a register_publisher makes it Active again, whatever *)
(* the sessions do meanwhile.  The clock of the model stops at MaxTime, so  *)
(* the entries concerned are those whose window ends before MaxTime.        *)
C10_WindowEnds(e) ==
  IF e.state = "GracePeriod"
    THEN unwrap(e.publisher_disconnected_at) + publisher_grace_period
    ELSE unwrap(e.publisher_disconnected_at) + idle_stream_timeout

C10_Waiting(k) ==
  /\ Present(k)
  /\ Entry(k).state \in {"GracePeriod", "Idle"}
  /\ is_some(Entry(k).publisher_disconnected_at)
  /\ C10_WindowEnds(Entry(k)) < MaxTime

C10_EventuallySwept ==
  \A k \in Keys :
    C10_Waiting(k) ~> (~Present(k) \/ Entry(k).state = "Active")

(* The entry of a disconnected publisher is past its grace period, still in *)
(* the registry with a subscriber counted, and a sweep is due.              *)
C10_Witness ==
  \E k \in Keys :
    /\ C10_Waiting(k)
    /\ Entry(k).state = "GracePeriod"
    /\ u32_positive(Entry(k).subscriber_count)
    /\ now > C10_WindowEnds(Entry(k))

-----------------------------------------------------------------------------
(* The broadcast channel of an entry (tokio::sync::broadcast, created in     *)
(* StreamEntry::new, fed by StreamEntry::send, read through the Receivers    *)
(* StreamEntry::subscribe hands out).  A channel keeps the last `capacity`   *)
(* values sent; `tail` counts the values sent so far, and a receiver's       *)
(* `next` is the position of the value it reads next.  The first receiver    *)
(* that broadcast::channel returns is dropped at once by StreamEntry::new.   *)

min(a, b) == IF a < b THEN a ELSE b

RECURSIVE pow2_at_least(_, _)
pow2_at_least(n, p) == IF p >= n THEN p ELSE pow2_at_least(n, 2 * p)

(* broadcast::channel rounds the capacity up to a power of two. *)
channel_capacity == pow2_at_least(broadcast_capacity, 1)

NewChannel == [buf |-> << >>, tail |-> 0, rx_cnt |-> 0, closed |-> FALSE]

new_tx_reuses(chans) == IF chans = << >> THEN 1 ELSE Len(chans)

(* StreamEntry::new: the entry's Sender feeds a channel of its own. *)
new_tx(chans) == Len(chans) + 1

last_n(q, n) == IF Len(q) > n THEN SubSeq(q, Len(q) - n + 1, Len(q)) ELSE q

send_newest_first(chan, value) ==
  IF chan.rx_cnt = 0
    THEN chan
    ELSE [chan EXCEPT !.buf = SubSeq(<<value>> \o chan.buf, 1,
                                     min(Len(chan.buf) + 1, channel_capacity)),
                      !.tail = chan.tail + 1]

send_unless_full(chan, value) ==
  IF chan.rx_cnt = 0 \/ Len(chan.buf) >= channel_capacity
    THEN chan
    ELSE [chan EXCEPT !.buf = Append(chan.buf, value), !.tail = chan.tail + 1]

(* StreamEntry::send: Sender::send never waits; it fails, and the value is *)
(* dropped, when no receiver exists; otherwise the value takes the slot of *)
(* the oldest one.                                                         *)
send(chan, value) ==
  IF chan.rx_cnt = 0
    THEN chan
    ELSE [chan EXCEPT !.buf = last_n(Append(chan.buf, value), channel_capacity),
                      !.tail = chan.tail + 1]

(* StreamEntry::subscribe: a receiver that sees the values sent from now on. *)
chan_subscribe(chan) == [chan EXCEPT !.rx_cnt = chan.rx_cnt + 1]

(* Position of the oldest value the channel still holds. *)
oldest(chan) == chan.tail - Len(chan.buf)

(* Receiver::recv: Lagged when the next value was overwritten (the receiver *)
(* then continues at the oldest one), the next value when there is one,     *)
(* Closed when the Sender is gone and nothing is left; pending otherwise.   *)
recv_outcome(chan, next) ==
  IF next < oldest(chan) THEN [kind |-> "lagged", skipped |-> oldest(chan) - next]
  ELSE IF next < chan.tail THEN [kind |-> "frame", item |-> chan.buf[next - oldest(chan) + 1]]
  ELSE IF chan.closed THEN [kind |-> "closed"]
  ELSE [kind |-> "pending"]

recv_next(chan, next) ==
  IF next < oldest(chan) THEN oldest(chan)
  ELSE IF next < chan.tail THEN next + 1
  ELSE next

(* A Receiver is dropped; the channel's memory is freed with the last handle. *)
chan_release(chan) ==
  IF chan.closed /\ chan.rx_cnt = 0
    THEN [NewChannel EXCEPT !.closed = TRUE]
    ELSE chan

drop_receiver(chan) == chan_release([chan EXCEPT !.rx_cnt = chan.rx_cnt - 1])

(* The entry is dropped with its Sender. *)
drop_sender(chan) == chan_release([chan EXCEPT !.closed = TRUE])

(* The frames a publisher broadcasts in LiveSpec: the n-th broadcast call  *)
(* on a key carries timestamp n.  Payloads: onMetaData, AVC and AAC        *)
(* sequence headers, an AVC keyframe, an AVC inter frame, and an inter    *)
(* frame one byte larger than the GOP budget.                              *)
FrameKinds == {"metadata", "video_header", "audio_header", "keyframe",
               "inter", "oversize"}

(* What LiveSpec sends: the first frame an entry gets is the video sequence *)
(* header, the later ones are keyframes.                                    *)
LiveKinds(k) ==
  IF k \in DOMAIN sent /\ sent[k] # << >> THEN {"keyframe"} ELSE {"video_header"}

MakeFrame(kind, n) ==
  CASE kind = "metadata" -> BroadcastFrameMetadata(<<2, n>>)
    [] kind = "video_header" -> BroadcastFrameVideo(n, <<23, 0>>, TRUE, TRUE)
    [] kind = "audio_header" -> BroadcastFrameAudio(n, <<175, 0>>, TRUE)
    [] kind = "keyframe" -> BroadcastFrameVideo(n, <<23, 1>>, TRUE, FALSE)
    [] kind = "inter" -> BroadcastFrameVideo(n, <<39>>, FALSE, FALSE)
    [] kind = "oversize" ->
         BroadcastFrameVideo(n, <<39>> \o [i \in 1 .. max_gop_size |-> 0], FALSE, FALSE)

-----------------------------------------------------------------------------
(* LiveSpec.  Every handler is one step: its body runs from the moment it   *)
(* holds its guards to its return without any await.  A session is the     *)
(* connection of a publisher or of a player of the key, not both at once:   *)
(* it broadcasts and unregisters only between its register_publisher and    *)
(* its unregister_publisher, it registers only while it plays nothing, it   *)
(* subscribes only while it publishes nothing, and it gives up a            *)
(* subscription by calling unsubscribe and dropping its Receiver.  The      *)
(* catch-up frames subscribe returned are written out before the first      *)
(* recv.                                                                    *)

LiveInit == RegistryInit /\ ChannelInit /\ GopAside /\ ProtoAside

LiveRegisterNew(t, k) ==
  /\ is_none(rx[t])
  /\ k \notin DOMAIN streams
  /\ streams' = map_insert(streams, k, register_new(t, now))
  /\ publishing' = [publishing EXCEPT ![t] = @ \cup {k}]
  /\ LET id == new_tx(channels)
     IN  /\ tx' = map_insert(tx, k, id)
         /\ channels' = IF id > Len(channels)
                          THEN Append(channels, NewChannel)
                          ELSE [channels EXCEPT ![id].closed = FALSE]
  /\ sent' = map_insert(sent, k, << >>)
  /\ gop_by' = map_insert(gop_by, k, << >>)
  /\ regs' = map_insert(regs, k, 1)
  /\ UNCHANGED <<proto_vars, held, now, rx, got, catchup, calls, lock_vars, gop_vars>>

LiveRegisterExisting(t, k) ==
  /\ is_none(rx[t])
  /\ k \in DOMAIN streams
  /\ streams' = [streams EXCEPT ![k] = register_existing(streams[k], t)]
  /\ IF register_rejected(streams[k])
       THEN UNCHANGED <<publishing, regs>>
       ELSE /\ publishing' = [publishing EXCEPT ![t] = @ \cup {k}]
            /\ regs' = [regs EXCEPT ![k] = min(@ + 1, 2)]
  /\ UNCHANGED <<proto_vars, held, now, tx, channels, rx, got, catchup, calls, sent, gop_by,
                 lock_vars, gop_vars>>

LiveUnregister(t, k) ==
  /\ k \in publishing[t]
  /\ streams' = IF k \in DOMAIN streams
                  THEN [streams EXCEPT ![k] = unregister_entry(streams[k], t, now)]
                  ELSE streams
  /\ publishing' = [publishing EXCEPT ![t] = @ \ {k}]
  /\ UNCHANGED <<proto_vars, held, now, channel_vars, lock_vars, gop_vars>>

(* subscribe: the receiver, the catch-up frames, then the count. *)
LiveSubscribe(t, k) ==
  /\ is_none(rx[t])
  /\ publishing[t] = {}
  /\ k \in DOMAIN streams
  /\ ~subscribe_not_active(streams[k])
  /\ channels' = [channels EXCEPT ![tx[k]] = chan_subscribe(@)]
  /\ rx' = [rx EXCEPT ![t] = Some([chan |-> tx[k], next |-> channels[tx[k]].tail,
                                   last |-> 0, prev |-> 0,
                                   created |-> streams[k].created_at,
                                   regs |-> regs[k]])]
  /\ catchup' = [catchup EXCEPT ![t] = get_catchup_frames(streams[k])]
  /\ streams' = [streams EXCEPT ![k] = subscribe_entry(streams[k])]
  /\ held' = [held EXCEPT ![t] = @ \cup {k}]
  /\ got' = [got EXCEPT ![t] = NoDelivery]
  /\ UNCHANGED <<proto_vars, publishing, now, tx, calls, sent, gop_by, regs, lock_vars, gop_vars>>

(* subscribe returns StreamNotFound or StreamNotActive: nothing changes. *)
LiveSubscribeRefused(t, k) ==
  /\ is_none(rx[t])
  /\ publishing[t] = {}
  /\ IF k \in DOMAIN streams THEN subscribe_not_active(streams[k]) ELSE TRUE
  /\ streams' = IF k \in DOMAIN streams
                  THEN [streams EXCEPT ![k] = subscribe_entry(streams[k])]
                  ELSE streams
  /\ got' = [got EXCEPT ![t] = [kind |-> "refused"]]
  /\ UNCHANGED <<proto_vars, held, publishing, now, tx, channels, rx, catchup, calls, sent, gop_by,
                 regs, lock_vars, gop_vars>>

LiveUnsubscribe(t, k) ==
  /\ is_some(rx[t])
  /\ k \in held[t]
  /\ streams' = IF k \in DOMAIN streams
                  THEN [streams EXCEPT ![k] = unsubscribe_entry(streams[k])]
                  ELSE streams
  /\ held' = [held EXCEPT ![t] = @ \ {k}]
  /\ channels' = [channels EXCEPT ![unwrap(rx[t]).chan] = drop_receiver(@)]
  /\ rx' = [rx EXCEPT ![t] = NoneOpt]
  /\ got' = [got EXCEPT ![t] = NoDelivery]
  /\ catchup' = [catchup EXCEPT ![t] = << >>]
  /\ UNCHANGED <<proto_vars, publishing, now, tx, calls, sent, gop_by, regs, lock_vars, gop_vars>>

(* broadcast: update_caches, then send. *)
LiveBroadcast(t, k, kind) ==
  /\ k \in publishing[t]
  /\ calls[k] < MaxFrames
  /\ calls' = [calls EXCEPT ![k] = @ + 1]
  /\ LET frame == MakeFrame(kind, calls[k] + 1)
     IN  IF k \in DOMAIN streams
           THEN /\ streams' = [streams EXCEPT ![k] = update_caches(@, frame)]
                /\ channels' = [channels EXCEPT ![tx[k]] =
                      send(@, [seq |-> calls[k] + 1, created |-> streams[k].created_at,
                               regs |-> regs[k], frame |-> frame])]
                /\ sent' = [sent EXCEPT ![k] = Append(@, frame)]
                /\ gop_by' = [gop_by EXCEPT ![k] =
                      [ts \in {f.timestamp : f \in Range(streams'[k].gop_buffer.frames)} |->
                         IF ts = calls[k] + 1 THEN t ELSE gop_by[k][ts]]]
           ELSE UNCHANGED <<streams, channels, sent, gop_by>>
  /\ UNCHANGED <<proto_vars, held, publishing, now, tx, rx, got, catchup, regs, lock_vars, gop_vars>>

(* A subscriber's delivery task: frame_rx.recv() returns. *)
LiveRecv(t) ==
  /\ is_some(rx[t])
  /\ LET r == unwrap(rx[t])
         out == recv_outcome(channels[r.chan], r.next)
     IN  /\ out.kind # "pending"
         /\ got' = [got EXCEPT ![t] = [kind |-> out.kind]]
         /\ catchup' = [catchup EXCEPT ![t] = << >>]
         /\ rx' = [rx EXCEPT ![t] =
                     Some([r EXCEPT !.next = recv_next(channels[r.chan], r.next),
                                    !.last = IF out.kind = "frame" THEN out.item.seq ELSE @,
                                    !.prev = IF out.kind = "frame" THEN r.last ELSE @])]
  /\ UNCHANGED <<proto_vars, streams, held, publishing, now, tx, channels, calls, sent, gop_by,
                 regs, lock_vars, gop_vars>>

(* cleanup: the expired entries leave the map and are dropped. *)
LiveCleanup ==
  LET gone == keys_to_remove(streams, now)
  IN  /\ streams' = map_remove_all(streams, gone)
      /\ tx' = map_remove_all(tx, gone)
      /\ sent' = map_remove_all(sent, gone)
      /\ gop_by' = map_remove_all(gop_by, gone)
      /\ regs' = map_remove_all(regs, gone)
      /\ channels' = [i \in DOMAIN channels |->
                        IF \E k \in gone : tx[k] = i
                          THEN drop_sender(channels[i]) ELSE channels[i]]
      /\ UNCHANGED <<proto_vars, held, publishing, now, rx, got, catchup, calls, lock_vars, gop_vars>>

LiveTick ==
  /\ now < MaxTime
  /\ now' = now + 1
  /\ UNCHANGED <<proto_vars, streams, held, publishing, channel_vars, lock_vars, gop_vars>>

LiveNext ==
  \/ \E t \in Sessions, k \in Keys : LiveRegisterNew(t, k)
  \/ \E t \in Sessions, k \in Keys : LiveRegisterExisting(t, k)
  \/ \E t \in Sessions, k \in Keys : LiveUnregister(t, k)
  \/ \E t \in Sessions, k \in Keys : LiveSubscribe(t, k)
  \/ \E t \in Sessions, k \in Keys : LiveSubscribeRefused(t, k)
  \/ \E t \in Sessions, k \in Keys : LiveUnsubscribe(t, k)
  \/ \E t \in Sessions, k \in Keys : \E kind \in LiveKinds(k) : LiveBroadcast(t, k, kind)
  \/ \E t \in Sessions : LiveRecv(t)
  \/ LiveCleanup
  \/ LiveTick

LiveSpec == LiveInit /\ [][LiveNext]_vars

(* CatchupSpec: publishers, late joiners that stay (and never poll their   *)
(* receiver) and every kind of frame on one entry, within one instant (no  *)
(* sweep).                                                                 *)
CatchupNext ==
  \/ \E t \in Sessions, k \in Keys : LiveRegisterNew(t, k)
  \/ \E t \in Sessions, k \in Keys : LiveRegisterExisting(t, k)
  \/ \E t \in Sessions, k \in Keys : LiveUnregister(t, k)
  \/ \E t \in Sessions, k \in Keys : LiveSubscribe(t, k)
  \/ \E t \in Sessions, k \in Keys, kind \in FrameKinds : LiveBroadcast(t, k, kind)

CatchupSpec == LiveInit /\ [][CatchupNext]_vars

------------------------------------------------------------------------------
(* SnapshotSpec.  subscribe and broadcast statement by statement: a handler  *)
(* is granted the map lock, then the entry lock (read for subscribe, write   *)
(* for broadcast), and then runs the statements of its body one at a time,   *)
(* so that other handlers are scheduled between any two of them unless a     *)
(* lock keeps them out.  task[t].pc is "subscribed" between entry.subscribe  *)
(* and get_catchup_frames, and "cached" between update_caches and send.      *)
(* No receiver is read here: rx[t].next stays where entry.subscribe put it.  *)

SnapOps == {"subscribe", "broadcast"}
SnapKinds == {"video_header", "keyframe", "inter"}
BodyPcs == {"entry", "subscribed", "cached"}

(* The guard a handler asks of the entry's RwLock (store.rs: read().await in *)
(* subscribe, write().await in broadcast).                                   *)
entry_lock_mode_all_read(op) == "read"
entry_lock_mode(op) == IF op \in EntryWriteOps THEN "write" ELSE "read"

SnapWriters(k) ==
  {t \in Sessions : task[t].pc \in BodyPcs /\ task[t].key = k
                     /\ entry_lock_mode(task[t].op) = "write"}
SnapReaders(k) ==
  {t \in Sessions : task[t].pc \in BodyPcs /\ task[t].key = k
                     /\ entry_lock_mode(task[t].op) = "read"}

(* register_publisher of a key not present, in one step under the map's     *)
(* write lock.                                                             *)
SnapRegister(t, k) ==
  /\ task[t].pc = "idle"
  /\ can_write(MapReaders, MapWriters)
  /\ LiveRegisterNew(t, k)

(* A session calls subscribe or broadcast and is granted the map lock. *)
SnapCall(t, op, k) ==
  /\ op = "subscribe" => is_none(rx[t]) /\ publishing[t] = {}
  /\ op = "broadcast" => k \in publishing[t] /\ calls[k] < MaxFrames
  /\ AcquireMap(t, op, k)

(* streams.get(key) is Some: entry_arc.read().await or write().await. *)
SnapAcquireEntry(t) ==
  /\ task[t].pc = "map"
  /\ task[t].key \in DOMAIN streams
  /\ IF entry_lock_mode(task[t].op) = "write"
       THEN can_write(SnapReaders(task[t].key), SnapWriters(task[t].key))
       ELSE can_read(SnapReaders(task[t].key), SnapWriters(task[t].key))
  /\ task' = [task EXCEPT ![t].pc = "entry"]
  /\ UNCHANGED <<proto_vars, channel_vars, gop_vars, streams, held, publishing, cleanup_pc, now>>

(* subscribe: the state test, then `let rx = entry.subscribe()`. *)
SubscribeReceiver(t) ==
  /\ task[t].pc = "entry"
  /\ task[t].op = "subscribe"
  /\ LET k == task[t].key
     IN  IF subscribe_not_active(streams[k])
           THEN /\ task' = [task EXCEPT ![t] = Returned("StreamNotActive")]
                /\ UNCHANGED <<channels, rx>>
           ELSE /\ task' = [task EXCEPT ![t].pc = "subscribed"]
                /\ channels' = [channels EXCEPT ![tx[k]] = chan_subscribe(@)]
                /\ rx' = [rx EXCEPT ![t] =
                            Some([chan |-> tx[k], next |-> channels[tx[k]].tail,
                                  sent_before |-> Len(sent[k])])]
  /\ UNCHANGED <<proto_vars, gop_vars, streams, held, publishing, cleanup_pc, now,
                 tx, got, catchup, calls, sent, gop_by, regs>>

(* subscribe: `let catchup = entry.get_catchup_frames()`, the count, Ok. *)
SubscribeCatchup(t) ==
  /\ task[t].pc = "subscribed"
  /\ LET k == task[t].key
     IN  /\ catchup' = [catchup EXCEPT ![t] = get_catchup_frames(streams[k])]
         /\ streams' = [streams EXCEPT ![k] = subscribe_entry(streams[k])]
         /\ held' = [held EXCEPT ![t] = @ \cup {k}]
  /\ task' = [task EXCEPT ![t] = Returned("Subscribed")]
  /\ UNCHANGED <<proto_vars, gop_vars, publishing, cleanup_pc, now,
                 tx, channels, rx, got, calls, sent, gop_by, regs>>

(* broadcast: entry.update_caches(&frame). *)
BroadcastUpdateCaches(t, kind) ==
  /\ task[t].pc = "entry"
  /\ task[t].op = "broadcast"
  /\ LET k == task[t].key
         frame == MakeFrame(kind, calls[k] + 1)
     IN  /\ streams' = [streams EXCEPT ![k] = update_caches(@, frame)]
         /\ calls' = [calls EXCEPT ![k] = @ + 1]
         /\ gop_by' = [gop_by EXCEPT ![k] =
               [ts \in {f.timestamp : f \in Range(streams'[k].gop_buffer.frames)} |->
                  IF ts = calls[k] + 1 THEN t ELSE gop_by[k][ts]]]
         /\ task' = [task EXCEPT ![t] =
                       [pc |-> "cached", op |-> "broadcast", key |-> k, res |-> "none",
                        frame |-> frame]]
  /\ UNCHANGED <<proto_vars, gop_vars, held, publishing, cleanup_pc, now,
                 tx, channels, rx, got, catchup, sent, regs>>

(* broadcast: `let _ = entry.send(frame)`, and the guards are dropped. *)
BroadcastSend(t) ==
  /\ task[t].pc = "cached"
  /\ LET k == task[t].key
         frame == task[t].frame
     IN  /\ channels' = [channels EXCEPT ![tx[k]] =
               send(@, [seq |-> calls[k], created |-> streams[k].created_at,
                        regs |-> regs[k], frame |-> frame])]
         /\ sent' = [sent EXCEPT ![k] = Append(@, frame)]
  /\ task' = [task EXCEPT ![t] = Returned("Sent")]
  /\ UNCHANGED <<proto_vars, gop_vars, streams, held, publishing, cleanup_pc, now,
                 tx, rx, got, catchup, calls, gop_by, regs>>

SnapshotNext ==
  \/ \E t \in Sessions, k \in Keys : SnapRegister(t, k)
  \/ \E t \in Sessions, op \in SnapOps, k \in Keys : SnapCall(t, op, k)
  \/ \E t \in Sessions : SnapAcquireEntry(t)
  \/ \E t \in Sessions : SubscribeReceiver(t)
  \/ \E t \in Sessions : SubscribeCatchup(t)
  \/ \E t \in Sessions, kind \in SnapKinds : BroadcastUpdateCaches(t, kind)
  \/ \E t \in Sessions : BroadcastSend(t)

SnapshotSpec == LiveInit /\ [][SnapshotNext]_vars

(* What a receiver was sent: the values at the positions from its own on. *)
sent_to(t) ==
  LET r == unwrap(rx[t])
      c == channels[r.chan]
  IN  {i \in 1 .. Len(c.buf) : oldest(c) + i - 1 >= r.next}

(* C35: subscribe cuts the broadcasts of its key in two.  For a session that *)
(* subscribe returned to: the values its receiver was sent are exactly the   *)
(* frames of the broadcasts that completed after entry.subscribe(), in       *)
(* order and none missing (as many as such broadcasts; the values the ring   *)
(* still holds are those frames), and every catch-up frame is a frame of a   *)
(* broadcast that completed before it.                                       *)
C35_SubscribeCutsBroadcasts ==
  \A t \in Sessions : \A k \in held[t] :
    is_some(rx[t]) =>
      LET r == unwrap(rx[t])
          c == channels[r.chan]
      IN  /\ c.tail - r.next = Len(sent[k]) - r.sent_before
          /\ \A i \in sent_to(t) :
               c.buf[i].frame = sent[k][r.sent_before + (oldest(c) + i - 1 - r.next) + 1]
          /\ \A i \in DOMAIN catchup[t] :
               \E j \in 1 .. r.sent_before : sent[k][j].timestamp = catchup[t][i].timestamp

(* A subscriber with catch-up frames whose receiver was sent frames later,  *)
(* while the next broadcast is in its body.                                 *)
C35_Witness ==
  \E t \in Sessions : \E k \in held[t] :
    /\ is_some(rx[t])
    /\ catchup[t] # << >>
    /\ sent_to(t) # {}
    /\ \E u \in Sessions : task[u].pc = "cached"

-----------------------------------------------------------------------------
(* Vocabulary of the claims about LiveSpec and CatchupSpec. *)

Last(s) == s[Len(s)]

(* The bytes of a sequence of tags, as GopBuffer::size accounts for them. *)
RECURSIVE sum_sizes(_)
sum_sizes(frames) ==
  IF frames = << >> THEN 0 ELSE tag_size(Head(frames)) + sum_sizes(Tail(frames))

(* This step is a call of broadcast for key k. *)
BroadcastStep(k) == calls'[k] = calls[k] + 1

(* This step is a successful subscribe of session t. *)
SubscribedStep(t) == is_none(rx[t]) /\ is_some(rx'[t])

(* This step is a recv of session t that hands it a frame. *)
FrameStep(t) ==
  /\ is_some(rx[t])
  /\ is_some(rx'[t])
  /\ rx'[t] # rx[t]
  /\ got'[t].kind = "frame"

(* The receivers bound to the channel of key k. *)
ReceiversOf(k) == {t \in Sessions : is_some(rx[t]) /\ unwrap(rx[t]).chan = tx[k]}

(* C11: a publisher that registers on an entry in its grace period finds   *)
(* the entry as the subscribers left it: the entry goes from GracePeriod   *)
(* to Active with the same subscriber count, the same Sender and every     *)
(* receiver untouched.                                                     *)
C11_ReclaimStep ==
  \A k \in Keys :
    (/\ k \in DOMAIN streams
     /\ streams[k].state = "GracePeriod"
     /\ k \in DOMAIN streams'
     /\ streams'[k].state = "Active")
    => /\ streams'[k].subscriber_count = streams[k].subscriber_count
       /\ tx' = tx
       /\ channels' = channels
       /\ rx' = rx

(* C11: the channel of an entry of the map is open for its receivers. *)
C11_ReceiversOpen ==
  \A k \in DOMAIN streams : \A t \in ReceiversOf(k) :
    /\ ~channels[tx[k]].closed
    /\ channels[tx[k]].rx_cnt >= 1

(* C11: a frame broadcast to an entry lands in the ring ahead of every     *)
(* receiver bound to the entry, whichever publisher sent it.               *)
C11_DeliverStep ==
  \A k \in DOMAIN streams :
    (BroadcastStep(k) /\ ReceiversOf(k) # {})
    => /\ channels'[tx[k]].tail = channels[tx[k]].tail + 1
       /\ Last(channels'[tx[k]].buf).seq = calls'[k]
       /\ \A t \in ReceiversOf(k) : unwrap(rx[t]).next <= channels[tx[k]].tail

(* C11: a publisher that reconnects within the grace period takes the      *)
(* entry over (GracePeriod to Active) with the subscriber count unchanged, *)
(* and the receivers obtained before the disconnect stay open and get the  *)
(* frames of the new publisher.                                            *)
C11_Reconnect ==
  /\ [][C11_ReclaimStep]_vars
  /\ []C11_ReceiversOpen
  /\ [][C11_DeliverStep]_vars

(* A receiver obtained under the first publisher has just been handed the  *)
(* latest frame, which the second publisher broadcast.                     *)
C11_Witness ==
  \E k \in DOMAIN streams : \E t \in ReceiversOf(k) :
    /\ unwrap(rx[t]).regs = 1
    /\ regs[k] = 2
    /\ streams[k].state = "Active"
    /\ streams[k].subscriber_count = 1
    /\ got[t].kind = "frame"
    /\ channels[tx[k]].buf # << >>
    /\ Last(channels[tx[k]].buf).regs = 2
    /\ Last(channels[tx[k]].buf).seq = unwrap(rx[t]).last

(* C12: register_publisher on a key that is not in the map creates a fresh *)
(* entry: no subscribers, no cached headers, an empty GOP buffer and a     *)
(* channel of its own that no receiver is bound to.                        *)
C12_FreshStep ==
  \A k \in Keys :
    (k \notin DOMAIN streams /\ k \in DOMAIN streams')
    => /\ streams'[k].subscriber_count = 0
       /\ is_none(streams'[k].video_header)
       /\ is_none(streams'[k].audio_header)
       /\ is_none(streams'[k].metadata)
       /\ streams'[k].gop_buffer.frames = << >>
       /\ streams'[k].state = "Active"
       /\ channels'[tx'[k]] = NewChannel
       /\ \A t \in Sessions : is_some(rx'[t]) => unwrap(rx'[t]).chan # tx'[k]

(* C12: every frame in the ring of a receiver was broadcast to the entry   *)
(* the receiver subscribed to, so a receiver of a removed entry is never   *)
(* handed a frame of the entry that replaced it.                           *)
C12_OwnFramesOnly ==
  \A t \in Sessions :
    is_some(rx[t])
    => \A i \in 1 .. Len(channels[unwrap(rx[t]).chan].buf) :
         channels[unwrap(rx[t]).chan].buf[i].created = unwrap(rx[t]).created

(* C12: after cleanup removed an entry whose grace period expired, a       *)
(* register_publisher for the key creates a fresh entry, and the frames    *)
(* broadcast to it never reach the receivers of the removed entry.         *)
C12_FreshEntry == [][C12_FreshStep]_vars /\ []C12_OwnFramesOnly

(* A receiver of the removed entry found its channel closed while the entry *)
(* that replaced it has been broadcast to.                                  *)
C12_Witness ==
  \E k \in DOMAIN streams : \E t \in Sessions :
    /\ is_some(rx[t])
    /\ unwrap(rx[t]).chan # tx[k]
    /\ unwrap(rx[t]).created < streams[k].created_at
    /\ got[t].kind = "closed"
    /\ sent[k] # << >>

(* C13: subscribe returns the cached metadata, then the video sequence     *)
(* header, then the audio sequence header, then the frames of the GOP      *)
(* buffer in the order they were broadcast.                                *)
C13_SubscribeStep ==
  \A t \in Sessions : \A k \in DOMAIN streams :
    (SubscribedStep(t) /\ unwrap(rx'[t]).chan = tx[k])
    => LET e == streams[k]
           head == opt_seq(e.metadata) \o opt_seq(e.video_header)
                     \o opt_seq(e.audio_header)
           body == SubSeq(catchup'[t], Len(head) + 1, Len(catchup'[t]))
       IN  /\ Len(catchup'[t]) = Len(head) + Len(e.gop_buffer.frames)
           /\ SubSeq(catchup'[t], 1, Len(head)) = head
           /\ \A i \in 1 .. Len(body) :
                /\ body[i].timestamp \in 1 .. Len(sent[k])
                /\ body[i] = sent[k][body[i].timestamp]
           /\ \A i, j \in 1 .. Len(body) :
                i < j => body[i].timestamp < body[j].timestamp

C13_CatchupOrder == [][C13_SubscribeStep]_vars

(* A subscriber was handed metadata, both sequence headers and a keyframe, *)
(* which were broadcast in another order.                                  *)
C13_Witness ==
  \E t \in Sessions : \E k \in DOMAIN streams :
    /\ is_some(rx[t])
    /\ Len(catchup[t]) = 4
    /\ catchup[t][1].frame_type = "Metadata"
    /\ catchup[t][2].frame_type = "Video" /\ catchup[t][2].is_header
    /\ catchup[t][3].frame_type = "Audio" /\ catchup[t][3].is_header
    /\ catchup[t][4].is_keyframe
    /\ catchup[t] # sent[k]

(* The late joiner's case: a video sequence header, a keyframe, then inter *)
(* frames, the keyframe and the inter frames within the GOP budget.        *)
LateJoinerLog(log) ==
  /\ Len(log) >= 2
  /\ log[1].frame_type = "Video" /\ log[1].is_header
  /\ log[2].frame_type = "Video" /\ ~log[2].is_header /\ log[2].is_keyframe
  /\ \A i \in 3 .. Len(log) :
       log[i].frame_type = "Video" /\ ~log[i].is_header /\ ~log[i].is_keyframe
  /\ sum_sizes([i \in 1 .. Len(log) - 1 |->
                  FlvTagVideo(log[i + 1].timestamp, log[i + 1].data)]) <= max_gop_size

(* C14: after a video sequence header, a keyframe and n inter frames that  *)
(* fit the GOP budget, subscribe returns exactly the header, the keyframe  *)
(* and the n inter frames, so the first video frame after the header is a  *)
(* keyframe.                                                               *)
C14_SubscribeStep ==
  \A t \in Sessions : \A k \in DOMAIN streams :
    (SubscribedStep(t) /\ unwrap(rx'[t]).chan = tx[k] /\ LateJoinerLog(sent[k]))
    => /\ catchup'[t] = sent[k]
       /\ catchup'[t][2].is_keyframe

C14_LateJoiner == [][C14_SubscribeStep]_vars

(* A late joiner was handed the header, the keyframe and two inter frames. *)
C14_Witness ==
  \E t \in Sessions : \E k \in DOMAIN streams :
    /\ is_some(rx[t])
    /\ LateJoinerLog(sent[k])
    /\ Len(sent[k]) = 4
    /\ catchup[t] = sent[k]

(* C15: the frames a receiver is handed are in the publisher's broadcast   *)
(* order: each one was broadcast after the one handed before it (frames    *)
(* may be skipped, never reordered).                                       *)
C15_InOrderStep ==
  \A t \in Sessions :
    FrameStep(t) => unwrap(rx'[t]).last > unwrap(rx[t]).last

C15_InOrder == [][C15_InOrderStep]_vars

(* A receiver that lagged was handed a frame, then a later one that is not *)
(* the next the publisher broadcast.                                       *)
C15_Witness ==
  \E t \in Sessions :
    /\ is_some(rx[t])
    /\ got[t].kind = "frame"
    /\ unwrap(rx[t]).prev >= 1
    /\ unwrap(rx[t]).last > unwrap(rx[t]).prev + 1

(* C16: a call of broadcast updates the caches with the frame and hands    *)
(* the frame to the ring: with a receiver the frame becomes the newest     *)
(* slot of the ring (the oldest slot is overwritten when the ring is       *)
(* full), with no receiver the frame is dropped and the ring is as before. *)
C16_BroadcastStep ==
  \A k \in DOMAIN streams :
    BroadcastStep(k)
    => LET f == Last(sent'[k])
           c == channels[tx[k]]
           d == channels'[tx[k]]
       IN  /\ Len(sent'[k]) = Len(sent[k]) + 1
           /\ streams'[k] = update_caches(streams[k], f)
           /\ IF c.rx_cnt > 0
                THEN /\ d.tail = c.tail + 1
                     /\ Last(d.buf).frame = f
                     /\ Len(d.buf) <= channel_capacity
                     /\ Len(d.buf) >= Len(c.buf)
                ELSE d = c

(* C16: a publisher's broadcast can always be taken, whatever the state of *)
(* the ring and of the receivers.                                          *)
C16_NeverBlocked ==
  \A t \in Sessions : \A k \in publishing[t] :
    calls[k] < MaxFrames
    => \A kind \in FrameKinds : ENABLED LiveBroadcast(t, k, kind)

(* C16: broadcast never waits for a subscriber: it completes when the ring *)
(* is full and a subscriber has stopped receiving, and when there is no    *)
(* receiver at all, having updated the caches and handed the frame to the  *)
(* ring.                                                                   *)
C16_NeverWaits == [][C16_BroadcastStep]_vars /\ []C16_NeverBlocked

(* A subscriber that never received is behind a full ring whose oldest     *)
(* frame has been overwritten, and the publisher's frames are all logged.  *)
C16_Witness ==
  \E k \in DOMAIN streams : \E t \in ReceiversOf(k) :
    /\ Len(channels[tx[k]].buf) = channel_capacity
    /\ channels[tx[k]].tail > channel_capacity
    /\ unwrap(rx[t]).next < oldest(channels[tx[k]])
    /\ Last(channels[tx[k]].buf).frame = Last(sent[k])

(* The most recent frame of a log among the positions idx. *)
latest(log, idx) ==
  IF idx = {} THEN NoneOpt
  ELSE Some(log[CHOOSE i \in idx : \A j \in idx : j <= i])

is_video_header_frame(f) == f.frame_type = "Video" /\ f.is_header

is_audio_header_frame(f) == f.frame_type = "Audio" /\ f.is_header

is_metadata_frame(f) == f.frame_type = "Metadata"

(* C17: the cached video header, audio header and metadata of an entry are *)
(* the most recent frame of their kind broadcast to the entry, whatever    *)
(* happened to the GOP buffer (keyframe reset, eviction, rejected push).   *)
C17_CachesAreLatest ==
  \A k \in DOMAIN streams :
    /\ streams[k].video_header =
         latest(sent[k], {i \in DOMAIN sent[k] : is_video_header_frame(sent[k][i])})
    /\ streams[k].audio_header =
         latest(sent[k], {i \in DOMAIN sent[k] : is_audio_header_frame(sent[k][i])})
    /\ streams[k].metadata =
         latest(sent[k], {i \in DOMAIN sent[k] : is_metadata_frame(sent[k][i])})

(* A second video header replaced the first in the cache, and the cache    *)
(* stayed while a keyframe reset the GOP buffer and a rejected push        *)
(* emptied it.                                                             *)
C17_Witness ==
  \E k \in DOMAIN streams :
    /\ Len(sent[k]) = 4
    /\ is_video_header_frame(sent[k][1])
    /\ is_video_header_frame(sent[k][2])
    /\ sent[k][3].is_keyframe
    /\ streams[k].gop_buffer.frames = << >>
    /\ streams[k].video_header = Some(sent[k][2])

(* The subscribers of the entry now under key k: the tasks whose subscribe *)
(* on that entry succeeded and whose unsubscribe has not been called.      *)
SubscribersOf(k) ==
  {t \in DOMAIN rx : is_some(rx[t]) /\ k \in held[t] /\ unwrap(rx[t]).chan = tx[k]}

(* C34: the subscriber_count of every entry is the number of successful    *)
(* subscribe calls on that entry whose subscriber has not unsubscribed     *)
(* yet; in particular it is never below zero and never wraps around, also  *)
(* when the entry was swept and created again under the same key while a   *)
(* subscriber of the old entry still has to unsubscribe.                   *)
C34_CountIsSubscribers ==
  \A k \in DOMAIN streams :
    streams[k].subscriber_count = Cardinality(SubscribersOf(k))

(* C40: the frames in an entry's GOP buffer, which subscribe hands out as  *)
(* catch-up frames, were all broadcast by one session: after a takeover of *)
(* the key, frames of the previous publisher are not followed by frames of *)
(* the new one.                                                            *)
C40_OnePublisherInGop ==
  \A k \in DOMAIN streams :
    \A a \in DOMAIN gop_by[k], b \in DOMAIN gop_by[k] : gop_by[k][a] = gop_by[k][b]

-----------------------------------------------------------------------------
(* GopSpec: one GopBuffer, created with any budget up to max_gop_size and   *)
(* driven through push, clear_frames, clear and set_video_header.  The tags *)
(* pushed are video tags whose first byte is 0x17 (keyframe, AVC) or 0x27   *)
(* (inter frame, AVC), of 0 to 3 bytes, and an audio tag; the n-th call     *)
(* carries timestamp n.                                                     *)

GopPayloads ==
  {<< >>, <<23>>, <<23, 1>>, <<23, 1, 0>>, <<39>>, <<39, 1>>, <<39, 1, 0>>}

GopTags(n) ==
  {FlvTagVideo(n, d) : d \in GopPayloads} \cup {FlvTagAudio(n, <<175, 1>>)}

GopInit ==
  /\ RegistryInit
  /\ ChannelInit
  /\ gop \in {GopBufferWithMaxSize(m) : m \in 0 .. max_gop_size}
  /\ gop_call = NoCall
  /\ ProtoAside

GopPushCall ==
  /\ gop_call.n < MaxPushes
  /\ \E tag \in GopTags(gop_call.n + 1) :
       /\ gop' = GopPush(gop, tag)
       /\ gop_call' = [op |-> "push", n |-> gop_call.n + 1, tag |-> tag,
                       ret |-> GopPushOk(gop, tag)]
  /\ UNCHANGED <<proto_vars, streams, held, publishing, now, lock_vars, channel_vars>>

GopClearFrames ==
  /\ gop_call.n < MaxPushes
  /\ gop' = clear_frames(gop)
  /\ gop_call' = [op |-> "clear_frames", n |-> gop_call.n + 1]
  /\ UNCHANGED <<proto_vars, streams, held, publishing, now, lock_vars, channel_vars>>

GopClear ==
  /\ gop_call.n < MaxPushes
  /\ gop' = gop_clear(gop)
  /\ gop_call' = [op |-> "clear", n |-> gop_call.n + 1]
  /\ UNCHANGED <<proto_vars, streams, held, publishing, now, lock_vars, channel_vars>>

GopSetVideoHeader ==
  /\ gop_call.n < MaxPushes
  /\ gop' = set_video_header(gop, FlvTagVideo(0, <<23, 0>>))
  /\ gop_call' = [op |-> "set_video_header", n |-> gop_call.n + 1]
  /\ UNCHANGED <<proto_vars, streams, held, publishing, now, lock_vars, channel_vars>>

GopNext ==
  \/ GopPushCall
  \/ GopClearFrames
  \/ GopClear
  \/ GopSetVideoHeader

GopSpec == GopInit /\ [][GopNext]_vars

(* This step is a call of push with this tag. *)
PushStep(tag) ==
  /\ gop_call'.op = "push"
  /\ gop_call'.n = gop_call.n + 1
  /\ gop_call'.tag = tag

(* The frames from position i on. *)
drop_front(frames, i) == SubSeq(frames, i + 1, Len(frames))

-----------------------------------------------------------------------------
(* C18 (I3): after any sequence of push calls, whenever the buffer is      *)
(* non-empty and has_complete_gop() is true, the first buffered frame is a *)
(* keyframe.                                                               *)
C18_FirstIsKeyframe ==
  (gop.frames # << >> /\ gop.has_complete_gop) => tag_is_keyframe(Head(gop.frames))

(* C19: pushing a keyframe that fits in max_size discards every frame      *)
(* buffered before: afterwards the buffer holds exactly that keyframe, its *)
(* size is the keyframe's size and has_complete_gop() is true; a push of a *)
(* non-keyframe never turns has_complete_gop() on (nor off).               *)
C19_KeyframeStep ==
  \A tag \in GopTags(gop_call.n + 1) :
    (PushStep(tag) /\ tag_is_keyframe(tag) /\ tag_size(tag) <= gop.max_size)
    => (/\ gop'.frames = <<tag>>
        /\ gop'.current_size = tag_size(tag)
        /\ gop'.has_complete_gop
        /\ gop_call'.ret)

C19_InterStep ==
  \A tag \in GopTags(gop_call.n + 1) :
    (PushStep(tag) /\ ~tag_is_keyframe(tag))
    => gop'.has_complete_gop = gop.has_complete_gop

C19_KeyframeRestarts == [][C19_KeyframeStep /\ C19_InterStep]_vars

(* A keyframe was pushed onto a buffer that held a keyframe and inter      *)
(* frames, and is now alone in it.                                         *)
C19_Witness ==
  /\ gop_call.op = "push"
  /\ gop_call.n >= 3
  /\ tag_is_keyframe(gop_call.tag)
  /\ gop_call.ret
  /\ gop.frames = <<gop_call.tag>>
  /\ gop.max_size >= 3

(* C20: after any sequence of push and clear calls, size() is the sum of   *)
(* the sizes of the buffered frames and is at most max_size; a push of a   *)
(* non-keyframe leaves a suffix of the old frames (the oldest go first),   *)
(* followed by the new frame when it was accepted, and it evicts no more   *)
(* than needed: with one eviction fewer the new frame would not fit.       *)
C20_SizeInvariant ==
  /\ gop.current_size = sum_sizes(gop.frames)
  /\ gop.current_size <= gop.max_size

C20_EvictStep ==
  \A tag \in GopTags(gop_call.n + 1) :
    (PushStep(tag) /\ ~tag_is_keyframe(tag))
    => LET added == IF gop_call'.ret THEN <<tag>> ELSE << >>
           j == Len(gop.frames) + Len(added) - Len(gop'.frames)
       IN  /\ j \in 0 .. Len(gop.frames)
           /\ gop'.frames = drop_front(gop.frames, j) \o added
           /\ j > 0 =>
                sum_sizes(drop_front(gop.frames, j - 1)) + tag_size(tag) > gop.max_size
           /\ gop_call'.ret <=>
                sum_sizes(drop_front(gop.frames, j)) + tag_size(tag) <= gop.max_size

C20_SizeAndEviction == []C20_SizeInvariant /\ [][C20_EvictStep]_vars

(* A push that evicted the oldest frame, kept a later one and added the new. *)
C20_Witness ==
  /\ gop_call.op = "push"
  /\ gop_call.n >= 3
  /\ ~tag_is_keyframe(gop_call.tag)
  /\ gop_call.ret
  /\ Len(gop.frames) = 2
  /\ gop.frames[1].timestamp > 1
  /\ gop.frames[2] = gop_call.tag

(* C21: a push of a frame larger than max_size returns false and leaves    *)
(* the buffered frames, the current size and has_complete_gop as they      *)
(* were, for keyframes and non-keyframes alike; a push of a frame of size  *)
(* exactly max_size onto a non-empty buffer succeeds and leaves that frame *)
(* as the only one.                                                        *)
C21_OversizeStep ==
  \A tag \in GopTags(gop_call.n + 1) :
    /\ (PushStep(tag) /\ tag_size(tag) > gop.max_size)
       => /\ ~gop_call'.ret
          /\ gop'.frames = gop.frames
          /\ gop'.current_size = gop.current_size
          /\ gop'.has_complete_gop = gop.has_complete_gop
    /\ (PushStep(tag) /\ tag_size(tag) = gop.max_size /\ gop.frames # << >>)
       => /\ gop_call'.ret
          /\ gop'.frames = <<tag>>

C21_OversizeRejected == [][C21_OversizeStep]_vars

-----------------------------------------------------------------------------
(* HandshakeSpec: a client and a server Handshake wired back to back, or   *)
(* one Handshake facing a foreign peer whose first packet starts with any  *)
(* version byte.  The bytes a machine emits travel on the pipe to its      *)
(* peer; a read moves bytes from the pipe to the reader's buffer, which is *)
(* then handed to process.  A read takes everything that is on the pipe,   *)
(* or only ShortRead bytes of it.  After an error the caller gives up.     *)

ShortRead == 100
MaxShortReads == 2
MaxHsCalls == 6     \* calls after which process is only called on a machine that waits

(* The values the system clock is read at (milliseconds, as a u32). *)
HsTimes == {0, 16909060}

(* The version bytes a foreign peer starts with. *)
HsVersions == {0, 2, 3, 4, 31, 255}

Foreign(role, version) == [kind |-> "foreign", role |-> role, version |-> version]

(* The machines that run: both, or the one facing the foreign peer. *)
HsRuns(role) == IF hs_mode.kind = "back_to_back" THEN TRUE ELSE hs_mode.role = role

HandshakeInit ==
  /\ RegistryInit
  /\ ChannelInit
  /\ GopAside
  /\ hs = [r \in HsRoles |-> HandshakeNew(r)]
  /\ pipe = [r \in HsRoles |-> << >>]
  /\ inbox = [r \in HsRoles |-> << >>]
  /\ hs_log = << >>
  /\ hs_call = NoHsCall
  /\ hs_mode \in {BackToBack} \cup {Foreign(r, v) : r \in HsRoles, v \in HsVersions}
  /\ hs_reads = 0
  /\ BuildAside /\ SessAside /\ CmdAside /\ NormAside /\ SrvAside /\ AmfAside

(* What a call leaves on the wire: its output goes to the peer's pipe. *)
HsEmit(role, out) ==
  IF is_some(out)
    THEN /\ hs_log' = Append(hs_log, [from |-> role, len |-> Len(unwrap(out))])
         /\ pipe' = IF hs_mode.kind = "back_to_back"
                      THEN [pipe EXCEPT ![peer_of(role)] = @ \o unwrap(out)]
                      ELSE pipe
    ELSE UNCHANGED <<hs_log, pipe>>

(* generate_initial is called on a fresh machine. *)
HsGenerateInitial(role) ==
  /\ HsRuns(role)
  /\ hs[role].state = "Initial"
  /\ \E t \in HsTimes :
       LET r == generate_initial(hs[role], t)
       IN  /\ hs' = [hs EXCEPT ![role] = r.h]
           /\ HsEmit(role, r.out)
           /\ hs_call' = [n |-> hs_call.n + 1, role |-> role, op |-> "generate_initial",
                          ret |-> IF is_some(r.out) THEN "output" ELSE "nothing"]
  /\ UNCHANGED <<inbox, hs_mode, hs_reads, registry_vars, hs_others>>

(* The foreign peer sends the packet the machine waits for: its version    *)
(* byte and zeros first, a C2 of zeros to a server that answered.          *)
HsForeignSend ==
  /\ hs_mode.kind = "foreign"
  /\ LET role == hs_mode.role
         sends == Len(SelectSeq(hs_log, LAMBDA e : e.from = "Foreign"))
         first == <<hs_mode.version>> \o
                    [i \in 1 .. HANDSHAKE_SIZE * (IF role = "Server" THEN 1 ELSE 2) |-> 0]
         second == [i \in 1 .. HANDSHAKE_SIZE |-> 0]
     IN  /\ hs[role].state = IF sends = 0 THEN "WaitingForPeerPacket"
                              ELSE IF sends = 1 THEN "WaitingForPeerResponse"
                              ELSE "Initial"
         /\ pipe' = [pipe EXCEPT ![role] = @ \o (IF sends = 0 THEN first ELSE second)]
         /\ hs_log' = Append(hs_log, [from |-> "Foreign",
                                      len |-> IF sends = 0 THEN Len(first) ELSE Len(second)])
  /\ UNCHANGED <<hs, inbox, hs_call, hs_mode, hs_reads, registry_vars, hs_others>>

(* A read of n bytes followed by process on the reader's buffer. *)
HsProcess(role, n) ==
  /\ ~(hs_call.role = role /\ hs_call.op = "process" /\ hs_call.ret = "error")
  /\ \E t1 \in HsTimes, t2 \in HsTimes :
       LET data == inbox[role] \o take_bytes(pipe[role], n)
           r == process(hs[role], data, t1, t2)
       IN  /\ hs' = [hs EXCEPT ![role] = r.h]
           /\ inbox' = [inbox EXCEPT ![role] = r.data]
           /\ IF is_some(r.out)
                THEN /\ hs_log' = Append(hs_log, [from |-> role, len |-> Len(unwrap(r.out))])
                     /\ pipe' = IF hs_mode.kind = "back_to_back"
                                  THEN [pipe EXCEPT ![role] = drop_bytes(@, n),
                                                    ![peer_of(role)] = @ \o unwrap(r.out)]
                                  ELSE [pipe EXCEPT ![role] = drop_bytes(@, n)]
                ELSE /\ hs_log' = hs_log
                     /\ pipe' = [pipe EXCEPT ![role] = drop_bytes(@, n)]
           /\ hs_call' = [n |-> hs_call.n + 1, role |-> role, op |-> "process",
                          state |-> hs[role].state,
                          had |-> Len(data),
                          left |-> Len(r.data),
                          first |-> IF data = << >> THEN -1 ELSE data[1],
                          ret |-> IF is_some(r.err) THEN "error"
                                  ELSE IF is_some(r.out) THEN "output" ELSE "nothing",
                          err |-> r.err]
  /\ UNCHANGED <<hs_mode, registry_vars, hs_others>>

HsWaiting(role) == hs[role].state \in {"WaitingForPeerPacket", "WaitingForPeerResponse"}

(* The read returns everything that has arrived; with nothing new, process *)
(* is called on a buffer that holds the packet the machine now waits for.  *)
HsRead(role) ==
  /\ HsRuns(role)
  /\ HsWaiting(role)
  /\ \/ pipe[role] # << >>
     \/ process(hs[role], inbox[role], 0, 0).h # hs[role]
  /\ HsProcess(role, Len(pipe[role]))
  /\ UNCHANGED hs_reads

(* The read returns exactly as many bytes as bytes_needed() asks for. *)
HsExactRead(role) ==
  /\ HsRuns(role)
  /\ HsWaiting(role)
  /\ Len(pipe[role]) >= bytes_needed(hs[role])
  /\ HsProcess(role, bytes_needed(hs[role]))
  /\ UNCHANGED hs_reads

(* process is called on a machine that waits for nothing: before           *)
(* generate_initial, or when it is Done.                                   *)
HsWrongState(role) ==
  /\ HsRuns(role)
  /\ ~HsWaiting(role)
  /\ hs_call.n < MaxHsCalls
  /\ HsProcess(role, Len(pipe[role]))
  /\ UNCHANGED hs_reads

(* The read returns only the first ShortRead bytes. *)
HsShortRead(role) ==
  /\ HsRuns(role)
  /\ HsWaiting(role)
  /\ hs_reads < MaxShortReads
  /\ Len(pipe[role]) > ShortRead
  /\ HsProcess(role, ShortRead)
  /\ hs_reads' = hs_reads + 1

HandshakeNext ==
  \/ \E role \in HsRoles : HsGenerateInitial(role)
  \/ HsForeignSend
  \/ \E role \in HsRoles : HsRead(role)
  \/ \E role \in HsRoles : HsShortRead(role)
  \/ \E role \in HsRoles : HsExactRead(role)
  \/ \E role \in HsRoles : HsWrongState(role)

HandshakeSpec == HandshakeInit /\ [][HandshakeNext]_vars

(* Every call that can be made is made eventually. *)
HandshakeFairSpec == HandshakeSpec /\ WF_vars(HandshakeNext)

(* The three transfers of a handshake between two Handshake machines. *)
HsTransfers ==
  <<[from |-> "Client", len |-> 1 + HANDSHAKE_SIZE],
    [from |-> "Server", len |-> 1 + HANDSHAKE_SIZE * 2],
    [from |-> "Client", len |-> HANDSHAKE_SIZE]>>

(* C22: back to back, the outputs are C0C1, S0S1S2 and C2 in this order    *)
(* and nothing else; the client is Done exactly from the moment it emitted *)
(* C2, and the server exactly from the moment it has consumed all of C2.   *)
C22_ThreeTransfers ==
  hs_mode.kind = "back_to_back"
  => /\ Len(hs_log) <= 3
     /\ hs_log = SubSeq(HsTransfers, 1, Len(hs_log))
     /\ is_done(hs["Client"]) <=> Len(hs_log) = 3
     /\ is_done(hs["Server"])
          <=> (Len(hs_log) = 3 /\ pipe["Server"] = << >> /\ inbox["Server"] = << >>)

(* Both machines are Done. *)
HsBothDone == is_done(hs["Client"]) /\ is_done(hs["Server"])

(* C22: a client and a server Handshake connected back to back both reach  *)
(* Done, after exactly three transfers: C0C1 (1537 bytes) from the client, *)
(* S0S1S2 (3073 bytes) from the server, C2 (1536 bytes) from the client;   *)
(* the client is Done when it emits C2 and the server when it has consumed *)
(* C2.                                                                     *)
C22_Handshake ==
  /\ []C22_ThreeTransfers
  /\ (hs_mode.kind = "back_to_back") ~> HsBothDone

(* Both are Done, after two short reads on the way. *)
C22_Witness ==
  /\ hs_mode.kind = "back_to_back"
  /\ HsBothDone
  /\ hs_log = HsTransfers
  /\ hs_reads = MaxShortReads

(* This step is a process call of role on its peer's complete first packet. *)
FirstPacketStep(role) ==
  /\ hs_call'.n = hs_call.n + 1
  /\ hs_call'.op = "process"
  /\ hs_call'.role = role
  /\ hs[role].state = "WaitingForPeerPacket"
  /\ hs_call'.had >= 1 + HANDSHAKE_SIZE * (IF role = "Server" THEN 1 ELSE 2)

C23_VersionStep ==
  \A role \in HsRoles :
    FirstPacketStep(role)
    => IF hs_call'.first < 3
         THEN /\ hs_call'.ret = "error"
              /\ hs_call'.err = Some([kind |-> "InvalidVersion",
                                      version |-> hs_call'.first])
              /\ hs'[role] = hs[role]
              /\ ~is_done(hs'[role])
              /\ hs_log' = hs_log
         ELSE /\ hs_call'.ret = "output"
              /\ hs'[role].state = IF role = "Server" THEN "WaitingForPeerResponse"
                                   ELSE "Done"
              /\ Len(hs_log') = Len(hs_log) + 1

ProcessStep(role) ==
  /\ hs_call'.n = hs_call.n + 1
  /\ hs_call'.op = "process"
  /\ hs_call'.role = role

(* The length of the packet process waits for: C0C1 for a server, S0S1S2   *)
(* for a client, C2 for a server that answered; nothing otherwise.         *)
pending_packet(h) ==
  CASE h.state = "WaitingForPeerPacket" ->
         IF h.role = "Server" THEN 1 + HANDSHAKE_SIZE ELSE 1 + HANDSHAKE_SIZE * 2
    [] h.state = "WaitingForPeerResponse" ->
         IF h.role = "Server" THEN HANDSHAKE_SIZE ELSE 0
    [] OTHER -> 0

(* C33: process called with fewer bytes than the pending packet needs, or  *)
(* in the Initial or Done state, returns no output, consumes none of the   *)
(* input and leaves the machine as it was: the buffer afterwards is the    *)
(* buffer the call was given, so the call that comes with the complete     *)
(* packet finds what it would have found without the short call.           *)
C33_ShortStep ==
  \A role \in HsRoles :
    /\ ProcessStep(role)
    /\ \/ hs[role].state \in {"Initial", "Done"}
       \/ hs_call'.had < pending_packet(hs[role])
    => /\ hs_call'.ret = "nothing"
       /\ hs_call'.left = hs_call'.had
       /\ inbox'[role] = inbox[role] \o take_bytes(pipe[role], hs_call'.had - Len(inbox[role]))
       /\ hs'[role] = hs[role]
       /\ hs_log' = hs_log
C33_ShortCallNoOp == [][C33_ShortStep]_vars

(* A server that waits for C2 was called with the first 100 bytes of it    *)
(* and has kept them.                                                      *)
C33_Witness ==
  /\ hs_call.op = "process"
  /\ hs_call.role = "Server"
  /\ hs_call.state = "WaitingForPeerResponse"
  /\ hs_call.had = ShortRead
  /\ hs_call.ret = "nothing"
  /\ Len(inbox["Server"]) = ShortRead
  /\ hs["Server"].state = "WaitingForPeerResponse"

(* C36: whenever a machine waits for peer data and is given at least       *)
(* bytes_needed() bytes, process consumes input and either advances the    *)
(* state or returns an error.                                              *)
C36_ProgressStep ==
  \A role \in HsRoles :
    /\ ProcessStep(role)
    /\ HsWaiting(role)
    /\ hs_call'.had >= bytes_needed(hs[role])
    => /\ hs_call'.left < hs_call'.had
       /\ hs'[role].state # hs[role].state \/ hs_call'.ret = "error"
C36_BytesNeededSuffice == [][C36_ProgressStep]_vars

-----------------------------------------------------------------------------
(* SessionSpec: one SessionState, called by its connection.  The build is  *)
(* chosen at the start.  A session that has already allocated and released *)
(* many stream ids starts with next_stream_id further on and no streams.   *)

MaxSessCalls == 4

(* next_stream_id when the run starts: a new session, and sessions whose   *)
(* ids are about to run out.                                               *)
SessFirstIds == {1, U32Max - 1, U32Max}

(* The byte counts handed to add_bytes_received: 1, one below the window,  *)
(* the window, and 3 * 2^30.                                               *)
AckInputs == {U64(0, 1), U64(0, 2499999), U64(0, 2500000), U64(0, -1073741824)}

SessionInit ==
  /\ RegistryInit /\ ChannelInit /\ GopAside
  /\ HsAside /\ CmdAside /\ NormAside /\ SrvAside /\ AmfAside
  /\ overflow_checks \in BOOLEAN
  /\ \E first \in SessFirstIds :
       /\ sess = [SessionStateNew EXCEPT !.next_stream_id = first]
       /\ sess_first = first
  /\ sess_call = NoSessCall
  /\ sess_returned = {}
  /\ sess_unacked = U64(0, 0)

(* A call can be made: the bound is not reached and no call has panicked. *)
SessCallable == sess_call.n < MaxSessCalls /\ ~sess_call.panic

SessCalled(op, r) ==
  /\ sess' = r.s
  /\ sess_call' = [op |-> op, n |-> sess_call.n + 1, ret |-> r.ret, panic |-> r.panic]

SessAllocate ==
  /\ SessCallable
  /\ LET r == allocate_stream_id(sess, overflow_checks)
     IN  /\ SessCalled("allocate_stream_id", r)
         /\ sess_returned' = sess_returned \cup r.ret
  /\ UNCHANGED <<sess_first, sess_unacked, overflow_checks, registry_vars, sess_others>>

SessRemove ==
  /\ SessCallable
  /\ \E id \in sess_returned \cup {1} :
       SessCalled("remove_stream", SessResult(remove_stream(sess, id), NoneOpt, FALSE))
  /\ UNCHANGED <<sess_first, sess_returned, sess_unacked, overflow_checks,
                 registry_vars, sess_others>>

SessAddBytes ==
  /\ SessCallable
  /\ \E bytes \in AckInputs :
       /\ SessCalled("add_bytes_received", add_bytes_received(sess, bytes, overflow_checks))
       /\ sess_unacked' = u64_add(sess_unacked, bytes)
  /\ UNCHANGED <<sess_first, sess_returned, overflow_checks, registry_vars, sess_others>>

SessMarkAck ==
  /\ SessCallable
  /\ SessCalled("mark_ack_sent", SessResult(mark_ack_sent(sess), NoneOpt, FALSE))
  /\ sess_unacked' = U64(0, 0)
  /\ UNCHANGED <<sess_first, sess_returned, overflow_checks, registry_vars, sess_others>>

(* A call that moves the session's phase. *)
SessPhaseCalled(op, s) ==
  /\ SessCalled(op, SessResult(s, NoneOpt, FALSE))
  /\ UNCHANGED <<sess_first, sess_returned, sess_unacked, overflow_checks,
                 registry_vars, sess_others>>

SessStartHandshake ==
  /\ SessCallable
  /\ SessPhaseCalled("start_handshake", start_handshake(sess))

SessCompleteHandshake ==
  /\ SessCallable
  /\ SessPhaseCalled("complete_handshake", complete_handshake(sess, sess_call.n + 1))

SessOnConnect ==
  /\ SessCallable
  /\ SessPhaseCalled("on_connect", on_connect(sess))

SessClose ==
  /\ SessCallable
  /\ SessPhaseCalled("close", close(sess))

SessionNext ==
  \/ SessAllocate
  \/ SessRemove
  \/ SessAddBytes
  \/ SessMarkAck
  \/ SessStartHandshake
  \/ SessCompleteHandshake
  \/ SessOnConnect
  \/ SessClose

SessionSpec == SessionInit /\ [][SessionNext]_vars

(* C24: every allocate_stream_id call returns an id that is at least 1 and *)
(* that no earlier allocate_stream_id call of the session returned (the    *)
(* ids below the first one of the run were returned before the run), also  *)
(* after remove_stream calls; the returned id then has a stream sub-state  *)
(* in mode Idle.                                                           *)
C24_AllocateStep ==
  SessAllocate =>
    /\ sess_call'.ret # NoneOpt
    /\ \A id \in sess_call'.ret :
         /\ id # 0
         /\ id \notin sess_returned
         /\ u32_ge(id, sess_first)
         /\ id \in DOMAIN sess'.streams
         /\ sess'.streams[id].mode = "Idle"
C24_FreshPositiveId == [][C24_AllocateStep]_vars

(* C25: add_bytes_received returns, and returns true exactly when the      *)
(* bytes received since the last mark_ack_sent, taken modulo 2^32, are at  *)
(* least window_ack_size; mark_ack_sent records the running count modulo   *)
(* 2^32.                                                                   *)
C25_AckStep ==
  /\ SessAddBytes =>
       /\ sess_call'.ret # NoneOpt
       /\ sess_call'.ret = Some(u32_ge(as_u32(sess_unacked'), sess.window_ack_size))
  /\ SessMarkAck => sess'.last_ack_sequence = as_u32(sess.bytes_received)
C25_AckDue == [][C25_AckStep]_vars

(* The place of a phase in the order of SessionPhase. *)
phase_rank(phase) ==
  CASE phase = "Connected" -> 0
    [] phase = "Handshaking" -> 1
    [] phase = "WaitingConnect" -> 2
    [] phase = "Active" -> 3
    [] phase = "Closing" -> 4
    [] phase = "Closed" -> 5

(* C39: no call moves the phase backwards in the order Connected,          *)
(* Handshaking, WaitingConnect, Active, Closing, Closed (so a closed       *)
(* session is never Active again), and the phase is Active only with       *)
(* handshake_completed_at set.                                             *)
C39_PhaseStep ==
  /\ phase_rank(sess'.phase) >= phase_rank(sess.phase)
  /\ sess'.phase = "Active" => sess'.handshake_completed_at # NoneOpt
C39_PhaseOrder == [][C39_PhaseStep]_vars

-----------------------------------------------------------------------------
(* CommandSpec: one CommandSequence, asked about commands and told of      *)
(* commands in any order.  cmd_log is the list of names on_command got.    *)

MaxCmdCalls == 5

CommandInit ==
  /\ RegistryInit /\ ChannelInit /\ GopAside
  /\ HsAside /\ BuildAside /\ SessAside /\ NormAside /\ SrvAside /\ AmfAside
  /\ CmdAside

CmdIsValid ==
  /\ cmd_call.n < MaxCmdCalls
  /\ \E name \in CmdNames :
       cmd_call' = [op |-> "is_valid_command", name |-> name,
                    ret |-> is_valid_command(cmdseq, name), n |-> cmd_call.n + 1]
  /\ UNCHANGED <<cmdseq, cmd_log, registry_vars, cmd_others>>

CmdOnCommand ==
  /\ cmd_call.n < MaxCmdCalls
  /\ \E name \in CmdNames :
       /\ cmdseq' = on_command(cmdseq, name)
       /\ cmd_log' = Append(cmd_log, name)
       /\ cmd_call' = [op |-> "on_command", name |-> name, ret |-> FALSE,
                       n |-> cmd_call.n + 1]
  /\ UNCHANGED <<registry_vars, cmd_others>>

CommandNext == CmdIsValid \/ CmdOnCommand

CommandSpec == CommandInit /\ [][CommandNext]_vars

(* The commands that move the guard, and the last of them in a log. *)
MovingCommands == {"connect", "createStream", "publish", "play"} \cup CloseCommands
RECURSIVE last_moving(_)
last_moving(log) ==
  IF log = <<>> THEN "none"
  ELSE IF Last(log) \in MovingCommands THEN Last(log)
  ELSE last_moving(SubSeq(log, 1, Len(log) - 1))

(* C26: is_valid_command accepts publish and play exactly when the last    *)
(* command that moved the guard is createStream: never in Initial,         *)
(* Connected, Publishing or Playing, and after a deleteStream, closeStream *)
(* or FCUnpublish not before a new createStream; releaseStream, FCPublish  *)
(* and unknown commands are accepted in every state.                       *)
C26_GuardStep ==
  CmdIsValid =>
    /\ cmd_call'.name \in {"publish", "play"} =>
         /\ cmd_call'.ret <=> (last_moving(cmd_log) = "createStream")
         /\ cmdseq.state \in {"Initial", "Connected", "Publishing", "Playing"}
              => ~cmd_call'.ret
    /\ cmd_call'.name \in {"releaseStream", "FCPublish", "unknownCommand"} => cmd_call'.ret
C26_PublishAfterCreateStream == [][C26_GuardStep]_vars

(* publish was refused after createStream, publish, deleteStream. *)
C26_Witness ==
  /\ cmd_call.op = "is_valid_command"
  /\ cmd_call.name = "publish"
  /\ ~cmd_call.ret
  /\ cmd_log = <<"createStream", "publish", "deleteStream">>

(* The guard after the commands of a log were applied to a new one. *)
RECURSIVE replay(_)
replay(log) ==
  IF log = <<>> THEN CommandSequenceNew
  ELSE on_command(replay(SubSeq(log, 1, Len(log) - 1)), Last(log))

(* Every command of the log was accepted by is_valid_command when it was   *)
(* applied.                                                                *)
guarded_run(log) ==
  \A i \in 1 .. Len(log) : is_valid_command(replay(SubSeq(log, 1, i - 1)), log[i])

(* C38: when on_command is only called for commands is_valid_command       *)
(* accepted, the guard is in Publishing or Playing only after a connect    *)
(* was applied, and as long as no connect was applied (a createStream may  *)
(* have come first) connect is accepted.                                   *)
C38_ConnectComesFirst ==
  guarded_run(cmd_log) =>
    /\ cmdseq.state \in {"Publishing", "Playing"}
         => \E i \in 1 .. Len(cmd_log) : cmd_log[i] = "connect"
    /\ (\A i \in 1 .. Len(cmd_log) : cmd_log[i] # "connect")
         => is_valid_command(cmdseq, "connect")

-----------------------------------------------------------------------------
(* NormalizerSpec: one TimestampNormalizer fed the timestamps of one       *)
(* publisher.  norm_in and norm_out are the timestamps given to normalize  *)
(* and returned by it since the normalizer was new or reset.               *)

MaxNormCalls == 4

(* The timestamps of the tests, and the largest u32. *)
NormInputs == {0, 100, 200, 1000, 1500, 2000, 5000, U32Max}

NormalizerInit ==
  /\ RegistryInit /\ ChannelInit /\ GopAside
  /\ HsAside /\ SessAside /\ CmdAside /\ SrvAside /\ AmfAside
  /\ overflow_checks \in BOOLEAN
  /\ NormAside

NormCallable == norm_call.n < MaxNormCalls /\ ~norm_call.panic

NormNormalize ==
  /\ NormCallable
  /\ \E timestamp \in NormInputs :
       LET r == normalize(norm, timestamp, overflow_checks)
       IN  /\ norm' = r.nz
           /\ norm_call' = [op |-> "normalize", n |-> norm_call.n + 1,
                            ret |-> r.ret, panic |-> r.panic]
           /\ norm_in' = Append(norm_in, timestamp)
           /\ norm_out' = IF r.panic THEN norm_out
                          ELSE Append(norm_out, CHOOSE x \in r.ret : TRUE)
  /\ UNCHANGED <<overflow_checks, registry_vars, norm_others>>

NormReset ==
  /\ NormCallable
  /\ norm' = normalizer_reset(norm)
  /\ norm_call' = [op |-> "reset", n |-> norm_call.n + 1, ret |-> NoneOpt, panic |-> FALSE]
  /\ norm_in' = <<>>
  /\ norm_out' = <<>>
  /\ UNCHANGED <<overflow_checks, registry_vars, norm_others>>

NormalizerNext == NormNormalize \/ NormReset

NormalizerSpec == NormalizerInit /\ [][NormalizerNext]_vars

(* A normalize call that returned. *)
NormReturned == NormNormalize /\ ~norm_call'.panic

(* C27 as stated: a timestamp at most 1000 below the last normalized one   *)
(* (or not below it) leaves the offset alone; a timestamp more than 1000   *)
(* below it makes normalize return last_normalized + 1.                    *)
C27_AsStatedStep ==
  NormReturned =>
    LET timestamp == Last(norm_in')
    IN  /\ ~significant_regression(norm, timestamp) => norm'.offset = norm.offset
        /\ significant_regression(norm, timestamp) =>
             norm_call'.ret = Some(u32_wrapping_add(norm.last_timestamp, 1))
C27_AsStated == [][C27_AsStatedStep]_vars

(* C27: a timestamp at most 1000 below the last normalized one (or not     *)
(* below it) leaves the offset alone and comes back with the offset added; *)
(* a timestamp more than 1000 below it sets the offset to                  *)
(* last_normalized + 1 and comes back as timestamp + last_normalized + 1,  *)
(* all modulo 2^32.  The call fails to return only in a build with         *)
(* overflow checks, on such a regression from last_normalized = 2^32 - 1.  *)
C27_OffsetStep ==
  NormNormalize =>
    LET timestamp == Last(norm_in')
    IN  /\ norm_call'.panic =>
             /\ overflow_checks
             /\ significant_regression(norm, timestamp)
             /\ norm.last_timestamp = U32Max
        /\ ~norm_call'.panic /\ ~significant_regression(norm, timestamp) =>
             /\ norm'.offset = norm.offset
             /\ norm_call'.ret = Some(u32_wrapping_add(timestamp, norm.offset))
        /\ ~norm_call'.panic /\ significant_regression(norm, timestamp) =>
             /\ norm'.offset = u32_wrapping_add(norm.last_timestamp, 1)
             /\ norm_call'.ret =
                  Some(u32_wrapping_add(timestamp, u32_wrapping_add(norm.last_timestamp, 1)))
C27_Offset == [][C27_OffsetStep]_vars

(* 100 came 1900 ms below 2000 and was returned as 2101. *)
C27_Witness ==
  /\ norm_in = <<2000, 100>>
  /\ norm_out = <<2000, 2101>>
  /\ norm.offset = 2001

(* C28: the timestamps normalize returns never decrease, and a frame that  *)
(* follows a large regression and is not itself a regression of the input  *)
(* comes out as far above its predecessor as it went in.                   *)
C28_MonotonicStep ==
  NormReturned /\ norm_out # <<>> =>
    /\ u32_ge(Last(norm_out'), Last(norm_out))
    /\ /\ Len(norm_in) >= 2
       /\ u32_lt(norm_in[Len(norm_in)], norm_in[Len(norm_in) - 1])
       /\ u32_gt(u32_wrapping_sub(norm_in[Len(norm_in) - 1], norm_in[Len(norm_in)]), 1000)
       /\ u32_ge(Last(norm_in'), Last(norm_in))
       => u32_wrapping_sub(Last(norm_out'), Last(norm_out))
            = u32_wrapping_sub(Last(norm_in'), Last(norm_in))
C28_Monotonic == [][C28_MonotonicStep]_vars

-----------------------------------------------------------------------------
(* ServerSpec: run_until on a multi-threaded runtime.  The accept loop,    *)
(* the cleanup task and the connection tasks run side by side; the         *)
(* shutdown future completes at any time.  handle_connection has no await  *)
(* and is one step.  A sweep is counted, not carried out.                  *)

MaxConnectionsLimit == 2
MaxSockets == 3
MaxPolls == 2

ServerInit ==
  /\ RegistryInit /\ ChannelInit /\ GopAside
  /\ HsAside /\ BuildAside /\ SessAside /\ CmdAside /\ NormAside /\ AmfAside
  /\ \E n \in 0 .. MaxConnectionsLimit : srv = RtmpServerNew(n)
  /\ shutdown_fired = FALSE
  /\ conns = {}
  /\ cleanup_task = NoCleanupTask
  /\ srv_accept = NoAccept

(* run_until up to the select: TcpListener::bind fails and run_until       *)
(* returns the error, or it succeeds and the cleanup task is spawned.      *)
SrvBind ==
  /\ srv.pc = "created"
  /\ \/ /\ srv' = [srv EXCEPT !.pc = "returned", !.result = "Err"]
        /\ UNCHANGED cleanup_task
     \/ /\ srv' = [srv EXCEPT !.pc = "select"]
        /\ cleanup_task' = spawn_cleanup_task
  /\ UNCHANGED <<shutdown_fired, conns, srv_accept, registry_vars, srv_others>>

(* The future given to run_until completes. *)
SrvShutdownFires ==
  /\ ~shutdown_fired
  /\ shutdown_fired' = TRUE
  /\ UNCHANGED <<srv, conns, cleanup_task, srv_accept, registry_vars, srv_others>>

(* One turn of accept_loop with a socket: handle_connection.  The permit   *)
(* is a local of handle_connection (_permit) which the spawned task does   *)
(* not capture: it goes back to the semaphore when handle_connection       *)
(* returns.                                                                *)
SrvHandleConnection ==
  /\ srv.pc = "select"
  /\ srv_accept.n < MaxSockets
  /\ LET acquired == try_acquire_owned(srv)
         live == Cardinality(conns)
     IN  IF acquired = "no_permits"
           THEN /\ srv_accept' = [n |-> srv_accept.n + 1, outcome |-> "rejected",
                                  session_id |-> 0, live |-> live]
                /\ UNCHANGED <<srv, conns>>
           ELSE LET taken == IF acquired = "permit" THEN with_permits(srv, -1) ELSE srv
                    session_id == taken.next_session_id
                    counted == [taken EXCEPT !.next_session_id = @ + 1]
                    dropped == IF acquired = "permit" THEN with_permits(counted, 1) ELSE counted
                IN  /\ srv' = dropped
                    /\ \E configured \in BOOLEAN :
                         /\ conns' = IF configured THEN conns \cup {session_id} ELSE conns
                         /\ srv_accept' =
                              [n |-> srv_accept.n + 1,
                               outcome |-> IF configured THEN "spawned" ELSE "configure_failed",
                               session_id |-> session_id, live |-> live]
  /\ UNCHANGED <<shutdown_fired, cleanup_task, registry_vars, srv_others>>

(* A connection task ends. *)
SrvConnectionEnds ==
  /\ \E c \in conns : conns' = conns \ {c}
  /\ UNCHANGED <<srv, shutdown_fired, cleanup_task, srv_accept, registry_vars, srv_others>>

SrvShutdownBranch_keeps_task ==
  /\ srv.pc = "select"
  /\ shutdown_fired
  /\ srv' = [srv EXCEPT !.pc = "returned", !.result = "Ok"]
  /\ UNCHANGED <<shutdown_fired, conns, cleanup_task, srv_accept, registry_vars, srv_others>>

(* The select sees the shutdown future complete: the accept loop is        *)
(* dropped, the cleanup task is aborted, run_until returns Ok.             *)
SrvShutdownBranch ==
  /\ srv.pc = "select"
  /\ shutdown_fired
  /\ cleanup_task' = abort(cleanup_task)
  /\ srv' = [srv EXCEPT !.pc = "returned", !.result = "Ok"]
  /\ UNCHANGED <<shutdown_fired, conns, srv_accept, registry_vars, srv_others>>

(* The runtime polls the cleanup task: the tick has come. *)
CleanupPoll ==
  /\ cleanup_task.pc = "tick"
  /\ cleanup_task.polls < MaxPolls
  /\ cleanup_task' = [cleanup_task EXCEPT !.pc = "cleanup", !.polls = @ + 1]
  /\ UNCHANGED <<srv, shutdown_fired, conns, srv_accept, registry_vars, srv_others>>

(* registry.cleanup() within that poll. *)
CleanupSweep ==
  /\ cleanup_task.pc = "cleanup"
  /\ cleanup_task' = [cleanup_task EXCEPT
                        !.pc = "swept",
                        !.sweeps = @ + 1,
                        !.late_sweeps = IF cleanup_task.abort THEN @ + 1 ELSE @]
  /\ UNCHANGED <<srv, shutdown_fired, conns, srv_accept, registry_vars, srv_others>>

(* Back at ticker.tick(): the task yields, and is gone if it was aborted. *)
CleanupYield ==
  /\ cleanup_task.pc = "swept"
  /\ cleanup_task' = [cleanup_task EXCEPT
                        !.pc = IF cleanup_task.abort THEN "cancelled" ELSE "tick"]
  /\ UNCHANGED <<srv, shutdown_fired, conns, srv_accept, registry_vars, srv_others>>

ServerNext ==
  \/ SrvBind
  \/ SrvShutdownFires
  \/ SrvHandleConnection
  \/ SrvConnectionEnds
  \/ SrvShutdownBranch
  \/ CleanupPoll
  \/ CleanupSweep
  \/ CleanupYield

ServerSpec == ServerInit /\ [][ServerNext]_vars

(* The select polls the shutdown future whenever run_until is polled, and  *)
(* a poll of the cleanup task runs on to its next await.                   *)
ServerFairSpec ==
  /\ ServerSpec
  /\ WF_vars(SrvShutdownBranch)
  /\ WF_vars(CleanupSweep)
  /\ WF_vars(CleanupYield)

(* C29: with max_connections N > 0 there are never more than N connection *)
(* tasks alive, and a socket accepted while N are alive is turned away.    *)
C29_AtMostN ==
  /\ srv.max_connections > 0 => Cardinality(conns) <= srv.max_connections
  /\ srv.max_connections > 0 /\ srv_accept.n > 0 /\ srv_accept.live >= srv.max_connections
       => srv_accept.outcome = "rejected"

(* C30 as stated: once run_until has aborted the cleanup task, no sweep    *)
(* runs.                                                                   *)
C30_NoSweepStep == CleanupSweep => ~cleanup_task.abort
C30_NoSweepAfterAbort == [][C30_NoSweepStep]_vars

(* C30: once the shutdown future has completed while run_until selects,    *)
(* run_until returns Ok, accepts nothing from then on and has aborted the  *)
(* cleanup task; the task is aborted on every return after the bind; no    *)
(* poll of an aborted cleanup task begins, a poll that was running when    *)
(* the abort came ends at its next await (with at most the sweep of that   *)
(* poll), and the task is then cancelled.                                  *)
C30_Returned ==
  srv.pc = "returned" =>
    IF cleanup_task.pc = "none"
      THEN srv.result = "Err"
      ELSE srv.result = "Ok" /\ shutdown_fired /\ cleanup_task.abort
C30_Step ==
  /\ CleanupPoll => ~cleanup_task.abort
  /\ SrvHandleConnection => srv.pc # "returned"
  /\ cleanup_task.late_sweeps' <= 1
C30_Shutdown ==
  /\ []C30_Returned
  /\ [][C30_Step]_vars
  /\ (shutdown_fired /\ srv.pc = "select") ~> (srv.pc = "returned" /\ srv.result = "Ok")
  /\ (srv.pc = "returned" /\ srv.result = "Ok") ~> (cleanup_task.pc = "cancelled")

(* run_until has returned Ok on shutdown after a connection was accepted;  *)
(* the poll of the cleanup task that was running then has made its sweep   *)
(* and the task is cancelled.                                              *)
C30_Witness ==
  /\ srv.pc = "returned"
  /\ srv.result = "Ok"
  /\ cleanup_task.pc = "cancelled"
  /\ cleanup_task.late_sweeps = 1
  /\ srv_accept.n >= 1

-----------------------------------------------------------------------------
(* AmfSpec.  One Amf0Decoder is given one buffer after another, with or     *)
(* without a reset in between.  Its first call is what the free function    *)
(* decode does when the decoder is lenient: a new decoder, one decode.  A   *)
(* decode call runs one turn of a container's loop at a time, so that the   *)
(* calls in progress are state (amf_run.stack) and a buffer nested to any   *)
(* depth is followed to its end.                                            *)

MaxAmfCalls == 2     \* decode calls made on the decoder
MaxProps == 2        \* entries of the largest map among the values

(* Strings, as UTF-8 bytes, and doubles, as bit patterns. *)
StrA == <<97>>
StrB == <<98>>
StrAb == <<97, 98>>
StrXml == <<60, 97, 47, 62>>
StrLong == [i \in 1 .. U16Max + 1 |-> 120]
F64_42_5 == <<64, 69, 64, 0, 0, 0, 0, 0>>
F64_minus_1 == <<191, 240, 0, 0, 0, 0, 0, 0>>

(* A map with the first n of the keys a, b, ab. *)
PropKeys == <<StrA, StrB, StrAb>>
PropValues == <<AmfNumber(F64_42_5), AmfString(StrAb), AmfBoolean(TRUE)>>
Props(n) == [k \in {PropKeys[i] : i \in 1 .. n} |->
               PropValues[CHOOSE i \in 1 .. n : PropKeys[i] = k]]

Container(kind, props, elements) ==
  CASE kind = "Object" -> AmfObject(props)
    [] kind = "EcmaArray" -> AmfEcmaArray(props)
    [] kind = "TypedObject" -> AmfTypedObject(StrAb, props)
    [] kind = "Array" -> AmfArray(elements)
ContainerKinds == {"Object", "EcmaArray", "TypedObject", "Array"}
Wrapper(kind, inner) == Container(kind, (StrA :> inner), <<inner>>)

(* A container of the kind, inside a container of the kind, and so on:     *)
(* `levels` values one inside the other, the innermost empty.              *)
RECURSIVE Nest(_, _)
Nest(kind, levels) ==
  IF levels = 1
    THEN Container(kind, HashMapNew, << >>)
    ELSE Wrapper(kind, Nest(kind, levels - 1))

(* How many values deep a value goes: 1 for a value that contains none. *)
RECURSIVE nesting(_)
children(value) ==
  IF value.t \in {"Object", "EcmaArray", "TypedObject"}
    THEN {value.props[k] : k \in DOMAIN value.props}
    ELSE IF value.t = "Array" THEN Range(value.elements) ELSE {}
nesting(value) ==
  LET below == {nesting(c) : c \in children(value)}
  IN  IF below = {} THEN 1 ELSE 1 + (CHOOSE m \in below : \A x \in below : x <= m)

(* What encode writes for Nest(kind, levels): the head of a wrapper and its *)
(* key, once per level around the innermost value, and as many tails.       *)
NestedBytes(kind, levels) ==
  LET wrapper == Wrapper(kind, AmfNull)
      head == container_head(wrapper)
                \o (IF kind = "Array" THEN << >> ELSE write_utf8(StrA))
      tail == container_tail(wrapper)
      inner == CHOOSE data \in encode(Nest(kind, 1)) : TRUE
      heads == (levels - 1) * Len(head)
  IN  [i \in 1 .. heads + Len(inner) + (levels - 1) * Len(tail) |->
         IF i <= heads THEN head[((i - 1) % Len(head)) + 1]
         ELSE IF i <= heads + Len(inner) THEN inner[i - heads]
         ELSE tail[((i - heads - Len(inner) - 1) % Len(tail)) + 1]]

Scalars ==
  {AmfNull, AmfUndefined, AmfBoolean(TRUE), AmfBoolean(FALSE), AmfNumber(F64_42_5),
   AmfNumber(F64_minus_1), AmfInteger(7), AmfInteger(0 - 3), AmfString(<< >>),
   AmfString(StrAb), AmfString(StrLong), AmfDate(F64_42_5), AmfXml(StrXml)}
Shallow ==
  {Container(kind, Props(n), SubSeq(PropValues, 1, n)) :
     kind \in ContainerKinds, n \in 0 .. MaxProps}
    \cup {Nest(kind, 2) : kind \in ContainerKinds}
    \cup {AmfObject((StrA :> AmfArray(<<AmfEcmaArray(Props(1)), AmfInteger(7)>>))),
          AmfObject((<< >> :> AmfNull)),
          AmfEcmaArray((<< >> :> AmfNumber(F64_42_5)) @@ Props(1))}
DeepLevels == MAX_NESTING_DEPTH - 1 .. MAX_NESTING_DEPTH + 1

(* What the decoder is given: a buffer encode wrote for a value, a buffer   *)
(* encode writes for a value nested to about the bound, or bytes no encoder *)
(* wrote (empty, cut short, a reference, an unknown marker, bytes that are  *)
(* not UTF-8, an object with no end marker or a wrong one).                 *)
AmfEncoded(value) ==
  {[of |-> "value", value |-> value, data |-> data, levels |-> nesting(value)] :
     data \in encode(value)}
AmfNested(kind, levels) ==
  [of |-> "nested", kind |-> kind, data |-> NestedBytes(kind, levels), levels |-> levels]
AmfRaw(data) == [of |-> "raw", data |-> data]
AmfRawInputs ==
  {AmfRaw(data) : data \in
     {<< >>, <<0, 64, 69>>, <<2, 0, 16>>, <<255>>, <<7, 0, 0>>, <<3, 0, 1, 97>>,
      <<2, 0, 1, 255>>, <<3, 0, 0>>, <<3, 0, 0, 5>>, <<10, 0, 0, 0, 2, 5>>}}
AmfFirstInputs ==
  UNION {AmfEncoded(value) : value \in Scalars \cup Shallow}
    \cup {AmfNested(kind, levels) : kind \in ContainerKinds, levels \in DeepLevels}
    \cup AmfRawInputs
AmfLaterInputs ==
  UNION {AmfEncoded(value) : value \in {AmfNull, AmfObject(Props(1))}}
    \cup {AmfNested(kind, levels) : kind \in {"Object", "Array"}, levels \in DeepLevels}
    \cup {AmfRaw(<<7, 0, 0>>), AmfRaw(<<2, 0, 16>>)}

AmfInit ==
  /\ RegistryInit /\ ChannelInit /\ GopAside
  /\ HsAside /\ BuildAside /\ SessAside /\ CmdAside /\ NormAside /\ SrvAside
  /\ amf_dec \in {Amf0DecoderWithLenient(lenient) : lenient \in BOOLEAN}
  /\ amf_call = NoAmfCall
  /\ amf_run = NoAmfRun

AmfResult(r) ==
  IF r.ok THEN [ok |-> TRUE, value |-> r.value] ELSE [ok |-> FALSE, err |-> r.err]

(* A decode call returned r to its caller, who waits in the frame on top of *)
(* `stack` or, if there is none, called the decoder from outside.           *)
AmfAfter(r, stack) ==
  /\ amf_dec' = r.dec
  /\ IF stack = << >>
       THEN /\ amf_run' = NoAmfRun
            /\ amf_call' = [amf_call EXCEPT !.returned = TRUE] @@ [res |-> AmfResult(r)]
       ELSE /\ amf_run' =
                 IF r.ok
                   THEN [stack |-> [stack EXCEPT ![Len(stack)] = frame_insert(@, r.value)],
                         buf |-> r.buf, err |-> "none"]
                   ELSE [stack |-> stack, buf |-> r.buf, err |-> r.err]
            /\ UNCHANGED amf_call

(* decoder.decode(&mut buf): the call, up to its return or to the first    *)
(* loop.                                                                   *)
AmfCall(input) ==
  /\ amf_call.returned
  /\ amf_call.n < MaxAmfCalls
  /\ amf_call.n > 0 => input \in AmfLaterInputs
  /\ LET o == decode(amf_dec, input.data)
     IN  IF o.opened
           THEN /\ amf_dec' = o.dec
                /\ amf_run' = [stack |-> <<o.frame>>, buf |-> o.buf, err |-> "none"]
                /\ amf_call' = [n |-> amf_call.n + 1, op |-> "decode", input |-> input,
                                before |-> amf_dec, returned |-> FALSE]
           ELSE /\ amf_dec' = o.r.dec
                /\ amf_run' = NoAmfRun
                /\ amf_call' = [n |-> amf_call.n + 1, op |-> "decode", input |-> input,
                                before |-> amf_dec, returned |-> TRUE,
                                res |-> AmfResult(o.r)]
  /\ UNCHANGED <<registry_vars, amf_others>>

(* One turn of the loop of the innermost container. *)
AmfLoop ==
  /\ ~amf_call.returned
  /\ amf_run.err = "none"
  /\ LET stack == amf_run.stack
         top == stack[Len(stack)]
         outer == SubSeq(stack, 1, Len(stack) - 1)
         turn == loop_turn(amf_dec, amf_run.buf, top)
         o == decode(turn.dec, turn.buf)
         waiting == [stack EXCEPT ![Len(stack)].key = turn.key]
     IN  IF turn.done THEN AmfAfter(turn.r, outer)
         ELSE IF o.opened
           THEN /\ amf_dec' = o.dec
                /\ amf_run' = [stack |-> Append(waiting, o.frame), buf |-> o.buf,
                               err |-> "none"]
                /\ UNCHANGED amf_call
           ELSE AmfAfter(o.r, waiting)
  /\ UNCHANGED <<registry_vars, amf_others>>

(* `self.decode(buf)?` got an error: the container's function returns it,  *)
(* and the decode that called the function lowers the depth and returns it. *)
AmfUnwind ==
  /\ ~amf_call.returned
  /\ amf_run.err # "none"
  /\ LET stack == amf_run.stack
     IN  AmfAfter(leave(AmfErr(amf_dec, amf_run.buf, amf_run.err)),
                  SubSeq(stack, 1, Len(stack) - 1))
  /\ UNCHANGED <<registry_vars, amf_others>>

(* decoder.reset(). *)
AmfReset ==
  /\ amf_call.returned
  /\ amf_call.op = "decode"
  /\ amf_dec' = decoder_reset(amf_dec)
  /\ amf_call' = [n |-> amf_call.n, op |-> "reset", returned |-> TRUE]
  /\ UNCHANGED <<amf_run, registry_vars, amf_others>>

AmfNext ==
  \/ \E input \in AmfFirstInputs \cup AmfLaterInputs : AmfCall(input)
  \/ AmfLoop
  \/ AmfUnwind
  \/ AmfReset

AmfSpec == AmfInit /\ [][AmfNext]_vars

-----------------------------------------------------------------------------
(* Claims about AmfSpec. *)

(* The last decode call returned. *)
AmfDecodeReturned == amf_call.op = "decode" /\ amf_call.returned

(* The value with every Integer in it replaced by the Number equal to it. *)
RECURSIVE as_numbers(_)
as_numbers(value) ==
  CASE value.t = "Integer" -> AmfNumber(f64_of_i32(value.i))
    [] value.t \in {"Object", "EcmaArray", "TypedObject"} ->
         [value EXCEPT !.props = [k \in DOMAIN value.props |-> as_numbers(value.props[k])]]
    [] value.t = "Array" ->
         [value EXCEPT !.elements = [i \in DOMAIN value.elements |-> as_numbers(value.elements[i])]]
    [] OTHER -> value

(* C31: decode(encode(v)) is v, with maps compared as maps and an Integer   *)
(* read back as the Number equal to it: a new lenient decoder given what    *)
(* encode wrote for a value returns that value.                             *)
C31_RoundTrip ==
  (AmfDecodeReturned /\ amf_call.before = Amf0DecoderNew /\ amf_call.input.of = "value")
    => amf_call.res = [ok |-> TRUE, value |-> as_numbers(amf_call.input.value)]

(* A value AMF0 can carry: no map in it has the empty string as a key (an  *)
(* empty key is how the end of a map is written).                          *)
RECURSIVE well_formed(_)
well_formed(value) ==
  /\ value.t \in {"Object", "EcmaArray", "TypedObject"} => << >> \notin DOMAIN value.props
  /\ \A c \in children(value) : well_formed(c)

(* C32: nesting is bounded at 64.  A decoder whose depth is 0, given what   *)
(* encode writes for a well-formed value (no empty key in a map), returns a *)
(* value when the value is at most 64                                      *)
(* levels deep and NestingTooDeep when it is deeper, and no decode call has *)
(* more than 64 containers open.  (The buffers for the values about 64      *)
(* levels deep are the ones encode writes: compared for 1 to 3 levels.)     *)
C32_NestingBound ==
  /\ Len(amf_run.stack) <= MAX_NESTING_DEPTH
  /\ \A kind \in ContainerKinds, levels \in 1 .. 3 :
       NestedBytes(kind, levels) \in encode(Nest(kind, levels))
  /\ (/\ AmfDecodeReturned
      /\ amf_call.before.depth = 0
      /\ amf_call.input.of # "raw"
      /\ amf_call.input.of = "value" => well_formed(amf_call.input.value))
       => IF amf_call.input.levels <= MAX_NESTING_DEPTH
            THEN amf_call.res.ok
            ELSE amf_call.res = [ok |-> FALSE, err |-> "NestingTooDeep"]

(* A decoder used before, at depth 0, returned a value 64 levels deep. *)
C32_Witness ==
  /\ AmfDecodeReturned
  /\ amf_call.n = MaxAmfCalls
  /\ amf_call.before.depth = 0
  /\ amf_call.input.of = "nested"
  /\ amf_call.input.levels = MAX_NESTING_DEPTH
  /\ amf_call.res.ok

(* C37: when a decode call has returned, with a value or with an error, the *)
(* decoder's depth is what it was before the call.                          *)
C37_DepthRestored ==
  AmfDecodeReturned => amf_dec.depth = amf_call.before.depth

====
